---- MODULE Spec2Model ----
(***************************************************************************)
(* Batch metadata enrichment job engine of Local_Library_V2.               *)
(*                                                                         *)
(* The store is SQLite used through Python's sqlite3 module: every         *)
(* statement that writes is followed by conn.commit(), and a SELECT opens  *)
(* no transaction, so each SQL statement is one atomic step and two        *)
(* statements of one handler can be separated by steps of other            *)
(* processes (HTTP handlers run on a thread pool, the job body runs in an  *)
(* RQ worker process).                                                     *)
(***************************************************************************)
EXTENDS Integers, Sequences, FiniteSets, TLC

\* ------------------------------------------------------------------ bounds
MaxBooks == 2       \* catalogue records that a library scan can create
MaxFaults == 1      \* store calls of the worker that raise in one behaviour

Creators == {"c1", "c2"}       \* clients that POST /batch-actions/metadata/jobs
Cancellers == {"k1", "k2"}     \* clients that DELETE /batch-actions/metadata/jobs/{id}

\* ------------------------------------------------------------- vocabulary
NULL == 0                      \* SQL NULL / None in an integer or time column
NoError == "NULL"              \* SQL NULL in the last_error column
NoStatus == "None"             \* last_status = None in the stream generator

ActiveStatuses == {"queued", "running"}
TerminalStatuses == {"completed", "failed", "cancelled"}

\* What one record's pipeline can do (fetch_book_detail + _process_book).
Outcomes == {"ok", "no_results", "ai_failed", "missing", "provider_exc"}

VARIABLES
    books,      \* number of rows of table books; ids are 1..books
    jobs,       \* table metadata_jobs: sequence of rows, id = index
    events,     \* table metadata_job_events: set of rows
    activity,   \* table activity_log: sequence of <<event_type, job_id>>
    queue,      \* the RQ queue: sequence of job ids handed to the worker
    clock,      \* next value of time.time()
    faults,     \* store faults raised so far
    creq,       \* per creator: position and locals of batch_metadata_job_start
    kreq,       \* per canceller: position and locals of batch_metadata_job_cancel
    w,          \* the worker: position and locals of run_metadata_job
    s,          \* the stream: position and locals of _generate
    g,          \* the status request: position and result of batch_metadata_job_status
    call,       \* a call of a function of the record pipeline: its name and arguments
    ret,        \* what that call returned
    catalog     \* per book: the jobs whose _apply_metadata wrote its tags and descriptions, in order

vars == <<books, jobs, events, activity, queue, clock, faults, creq, kreq, w, s,
          g, call, ret, catalog>>

\* The clients of a configuration are the domains of creq and kreq; a client
\* names a job by an id that some request of the configuration can create.
JobIds == 1..Cardinality(DOMAIN creq)

\* ------------------------------------------------------------ job store
NewJobRow(total_books, now) ==
    [status |-> "queued", total_books |-> total_books, processed_books |-> 0,
     succeeded_books |-> 0, failed_books |-> 0, current_book_id |-> NULL,
     last_error |-> NoError, created_at |-> now, started_at |-> NULL,
     finished_at |-> NULL, cancelled_at |-> NULL]

\* INSERT INTO metadata_jobs ...; the new row's id is Len(js) + 1.
create_metadata_job(js, total_books, now) == Append(js, NewJobRow(total_books, now))

\* SELECT ... WHERE id = ?: whether a row came back, and the row.
JobExists(js, job_id) == job_id \in DOMAIN js
fetch_metadata_job(js, job_id) == js[job_id]

ActiveJobIds(js) == {j \in DOMAIN js : js[j].status \in ActiveStatuses}

\* A faulty variant of the query: WHERE status = 'running' only.
fetch_active_metadata_job_runningOnly(js) ==
    IF {j \in DOMAIN js : js[j].status = "running"} = {} THEN NULL
    ELSE CHOOSE j \in DOMAIN js : js[j].status = "running"

\* SELECT id ... WHERE status IN ('queued','running') ORDER BY created_at DESC
\* LIMIT 1: the id of the most recently created active job, NULL when none.
fetch_active_metadata_job(js) ==
    IF ActiveJobIds(js) = {} THEN NULL
    ELSE CHOOSE j \in ActiveJobIds(js) :
             \A i \in ActiveJobIds(js) :
                 \/ js[i].created_at < js[j].created_at
                 \/ (js[i].created_at = js[j].created_at /\ i <= j)

\* UPDATE metadata_jobs SET <fields> WHERE id = ?; no row, no change.
update_metadata_job(js, job_id, fields) ==
    IF job_id \in DOMAIN js
    THEN [js EXCEPT ![job_id] =
             [c \in DOMAIN @ |-> IF c \in DOMAIN fields THEN fields[c] ELSE @[c]]]
    ELSE js

\* SELECT status ... ; row is not None and row["status"] == "cancelled"
_job_is_cancelled(js, job_id) ==
    job_id \in DOMAIN js /\ js[job_id].status = "cancelled"

\* ---------------------------------------------------------- event store
MaxEventId(es) == IF es = {} THEN 0 ELSE CHOOSE m \in {e.id : e \in es} :
                                            \A e \in es : e.id <= m

\* A faulty variant of the insert: ids numbered per job instead of per table.
create_metadata_job_event_perJobId(es, job_id, event_type, payload, now) ==
    es \cup {[id |-> Cardinality({e \in es : e.job_id = job_id}) + 1,
              job_id |-> job_id, event_type |-> event_type, payload |-> payload,
              created_at |-> now]}

\* INSERT INTO metadata_job_events: the row id is one more than the largest.
create_metadata_job_event(es, job_id, event_type, payload, now) ==
    es \cup {[id |-> MaxEventId(es) + 1, job_id |-> job_id,
              event_type |-> event_type, payload |-> payload, created_at |-> now]}

\* ORDER BY id of a set of rows.
RECURSIVE OrderById(_)
OrderById(rows) ==
    IF rows = {} THEN <<>>
    ELSE LET first == CHOOSE r \in rows : \A q \in rows : r.id <= q.id
         IN <<first>> \o OrderById(rows \ {first})

\* SELECT id, event_type, payload, created_at ... WHERE job_id = ? AND id > ?
\* ORDER BY id.
fetch_metadata_job_events(es, job_id, after_id) ==
    LET rows == OrderById({e \in es : e.job_id = job_id /\ e.id > after_id})
    IN [i \in 1..Len(rows) |->
           [id |-> rows[i].id, event_type |-> rows[i].event_type,
            payload |-> rows[i].payload, created_at |-> rows[i].created_at]]

\* ------------------------------------------------------------- catalogue
\* A faulty variant of the query: ORDER BY b.id DESC.
fetch_books_for_metadata_desc(n) == [i \in 1..n |-> n + 1 - i]

\* SELECT b.id ... FROM books ORDER BY b.id: the ids of all books, ascending.
fetch_books_for_metadata(n) == [i \in 1..n |-> i]

\* A library scan inserts one more book row (get_or_create_book).
AddBook ==
    /\ books < MaxBooks
    /\ books' = books + 1
    /\ catalog' = Append(catalog, <<>>)
    /\ UNCHANGED <<jobs, events, activity, queue, clock, faults, creq, kreq, w, s,
                   g, call, ret>>

\* ------------------------------------------ POST /batch-actions/metadata/jobs
CreateStart == [pc |-> "start", job_id |-> NULL, result |-> "none"]

\* active = fetch_active_metadata_job(conn); if active: raise 409
CreateCheck(c) ==
    /\ creq[c].pc = "start"
    /\ creq' = [creq EXCEPT ![c] =
                   IF fetch_active_metadata_job(jobs) # NULL
                   THEN [@ EXCEPT !.pc = "done", !.result = "conflict"]
                   ELSE [@ EXCEPT !.pc = "insert"]]
    /\ UNCHANGED <<books, jobs, events, activity, queue, clock, faults, kreq, w, s,
                   g, call, ret, catalog>>

\* rows = fetch_books_for_metadata(conn); job_id = create_metadata_job(conn,
\* len(rows)); log_activity(BULK_METADATA_JOB_CREATED). The log row is written
\* in the same step: no modelled operation reads activity_log.
CreateInsert(c) ==
    /\ creq[c].pc = "insert"
    /\ jobs' = create_metadata_job(jobs, Len(fetch_books_for_metadata(books)), clock)
    /\ clock' = clock + 1
    /\ activity' = Append(activity, <<"bulk_metadata_job_created", Len(jobs')>>)
    /\ creq' = [creq EXCEPT ![c] = [@ EXCEPT !.pc = "enqueue", !.job_id = Len(jobs')]]
    /\ UNCHANGED <<books, events, queue, faults, kreq, w, s,
                   g, call, ret, catalog>>

\* queue.enqueue(run_metadata_job, job_id) returns
CreateEnqueueOk(c) ==
    /\ creq[c].pc = "enqueue"
    /\ queue' = Append(queue, creq[c].job_id)
    /\ creq' = [creq EXCEPT ![c] = [@ EXCEPT !.pc = "done", !.result = "queued"]]
    /\ UNCHANGED <<books, jobs, events, activity, clock, faults, kreq, w, s,
                   g, call, ret, catalog>>

\* A faulty variant: queue.enqueue raises and the request ends 500 with the job
\* row left as it is.
CreateEnqueueFail_noWrite(c) ==
    /\ creq[c].pc = "enqueue"
    /\ creq' = [creq EXCEPT ![c] = [@ EXCEPT !.pc = "done", !.result = "error"]]
    /\ UNCHANGED <<books, jobs, events, activity, queue, clock, faults, kreq, w, s,
                   g, call, ret, catalog>>

\* queue.enqueue raises: the job row is written failed and the request ends 500
CreateEnqueueFail(c) ==
    /\ creq[c].pc = "enqueue"
    /\ jobs' = update_metadata_job(jobs, creq[c].job_id,
                   [status |-> "failed", finished_at |-> clock,
                    last_error |-> "enqueue failed"])
    /\ clock' = clock + 1
    /\ creq' = [creq EXCEPT ![c] = [@ EXCEPT !.pc = "done", !.result = "error"]]
    /\ UNCHANGED <<books, events, activity, queue, faults, kreq, w, s,
                   g, call, ret, catalog>>

\* -------------------------------- DELETE /batch-actions/metadata/jobs/{job_id}
CancelStart == [pc |-> "start", job_id |-> NULL, result |-> "none"]

\* A faulty variant of the select: only a cancelled job is left alone.
AfterCancelSelect_cancelledOnly(r, js, j) ==
    IF ~JobExists(js, j)
    THEN [r EXCEPT !.pc = "done", !.job_id = j, !.result = "notfound"]
    ELSE IF js[j].status = "cancelled"
    THEN [r EXCEPT !.pc = "respond", !.job_id = j]
    ELSE [r EXCEPT !.pc = "write", !.job_id = j]

\* A faulty variant: a missing row is answered like a finished job.
AfterCancelSelect_missingOk(r, js, j) ==
    IF ~JobExists(js, j)
    THEN [r EXCEPT !.pc = "done", !.job_id = j, !.result = "ok"]
    ELSE IF js[j].status \in {"completed", "failed", "cancelled"}
    THEN [r EXCEPT !.pc = "respond", !.job_id = j]
    ELSE [r EXCEPT !.pc = "write", !.job_id = j]

\* cancel_metadata_job, first statement: SELECT status; no row -> return False
\* (404); a terminal status -> return True without writing; else the UPDATE.
AfterCancelSelect(r, js, j) ==
    IF ~JobExists(js, j)
    THEN [r EXCEPT !.pc = "done", !.job_id = j, !.result = "notfound"]
    ELSE IF js[j].status \in {"completed", "failed", "cancelled"}
    THEN [r EXCEPT !.pc = "respond", !.job_id = j]
    ELSE [r EXCEPT !.pc = "write", !.job_id = j]

CancelRead(k, j) ==
    /\ kreq[k].pc = "start"
    /\ kreq' = [kreq EXCEPT ![k] = AfterCancelSelect(@, jobs, j)]
    /\ UNCHANGED <<books, jobs, events, activity, queue, clock, faults, creq, w, s,
                   g, call, ret, catalog>>

\* The cancel that also finalizes the row: finished_at set and current_book_id
\* cleared.
cancel_metadata_job_update_finalize(js, job_id, now) ==
    update_metadata_job(js, job_id,
        [status |-> "cancelled", cancelled_at |-> now, finished_at |-> now,
         current_book_id |-> NULL])

\* A faulty variant of the update: the status is written without cancelled_at.
cancel_metadata_job_update_noStamp(js, job_id, now) ==
    update_metadata_job(js, job_id, [status |-> "cancelled"])

\* cancel_metadata_job, second statement: UPDATE status, cancelled_at
cancel_metadata_job_update(js, job_id, now) ==
    update_metadata_job(js, job_id, [status |-> "cancelled", cancelled_at |-> now])

CancelWrite(k) ==
    /\ kreq[k].pc = "write"
    /\ jobs' = cancel_metadata_job_update(jobs, kreq[k].job_id, clock)
    /\ clock' = clock + 1
    /\ kreq' = [kreq EXCEPT ![k] = [@ EXCEPT !.pc = "respond"]]
    /\ UNCHANGED <<books, events, activity, queue, faults, creq, w, s,
                   g, call, ret, catalog>>

\* job = fetch_metadata_job(conn, job_id); log_activity when it reads cancelled
CancelRespond(k) ==
    /\ kreq[k].pc = "respond"
    /\ activity' = IF fetch_metadata_job(jobs, kreq[k].job_id).status = "cancelled"
                   THEN Append(activity,
                               <<"bulk_metadata_job_cancelled", kreq[k].job_id>>)
                   ELSE activity
    /\ kreq' = [kreq EXCEPT ![k] = [@ EXCEPT !.pc = "done", !.result = "ok"]]
    /\ UNCHANGED <<books, jobs, events, queue, clock, faults, creq, w, s,
                   g, call, ret, catalog>>

\* ------------------------------------------------------- run_metadata_job
WorkerIdle ==
    [pc |-> "idle", job_id |-> NULL, total_books |-> 0, rows |-> <<>>, idx |-> 0,
     processed |-> 0, succeeded |-> 0, failed |-> 0, error |-> NoError,
     selected |-> FALSE, outcome |-> "none"]

\* Positions inside the per-record try section (lines 427-464), positions whose
\* exceptions reach the outer handler (lines 499-508), and the others.
TryPositions == {"rec_fail", "rec_fail_evt", "rec_ok"}
OuterPositions == {"load", "claim", "list", "check", "setcur",
                   "exc", "exc_evt", "counters", "complete"}

\* The RQ worker takes the next job from the queue and calls run_metadata_job.
WDequeue ==
    /\ w.pc = "idle"
    /\ queue # <<>>
    /\ w' = [WorkerIdle EXCEPT !.pc = "load", !.job_id = Head(queue)]
    /\ queue' = Tail(queue)
    /\ UNCHANGED <<books, jobs, events, activity, clock, faults, creq, kreq, s,
                   g, call, ret, catalog>>

\* run_metadata_job(job_id) is called with an id that was not taken from the
\* queue.
Call_run_metadata_job(j) ==
    /\ w.pc = "idle"
    /\ w' = [WorkerIdle EXCEPT !.pc = "load", !.job_id = j]
    /\ UNCHANGED <<books, jobs, events, activity, queue, clock, faults, creq, kreq, s,
                   g, call, ret, catalog>>

\* job = fetch_metadata_job(conn, job_id); None -> return; cancelled ->
\* update_metadata_job(conn, job_id, finished_at=time.time()); return
WLoad ==
    /\ w.pc = "load"
    /\ IF ~JobExists(jobs, w.job_id)
       THEN /\ w' = WorkerIdle
            /\ UNCHANGED <<jobs, clock>>
       ELSE IF fetch_metadata_job(jobs, w.job_id).status = "cancelled"
       THEN /\ jobs' = update_metadata_job(jobs, w.job_id, [finished_at |-> clock])
            /\ clock' = clock + 1
            /\ w' = WorkerIdle
       ELSE /\ w' = [w EXCEPT !.pc = "claim",
                        !.total_books = fetch_metadata_job(jobs, w.job_id).total_books]
            /\ UNCHANGED <<jobs, clock>>
    /\ UNCHANGED <<books, events, activity, queue, faults, creq, kreq, s,
                   g, call, ret, catalog>>

\* update_metadata_job(conn, job_id, status="running", started_at=time.time())
WClaim ==
    /\ w.pc = "claim"
    /\ jobs' = update_metadata_job(jobs, w.job_id,
                   [status |-> "running", started_at |-> clock])
    /\ clock' = clock + 1
    /\ w' = [w EXCEPT !.pc = "list"]
    /\ UNCHANGED <<books, events, activity, queue, faults, creq, kreq, s,
                   g, call, ret, catalog>>

\* rows = fetch_books_for_metadata(conn); total_books written when it differs;
\* processed = succeeded = failed = 0; the for loop starts (or is empty)
WList ==
    /\ w.pc = "list"
    /\ LET rows == fetch_books_for_metadata(books) IN
       /\ jobs' = IF Len(rows) # w.total_books
                  THEN update_metadata_job(jobs, w.job_id, [total_books |-> Len(rows)])
                  ELSE jobs
       /\ w' = [w EXCEPT !.rows = rows, !.idx = 1, !.processed = 0, !.succeeded = 0,
                         !.failed = 0,
                         !.pc = IF Len(rows) = 0 THEN "complete" ELSE "check"]
    /\ UNCHANGED <<books, events, activity, queue, clock, faults, creq, kreq, s,
                   g, call, ret, catalog>>

\* The check at the top of the loop where the cancelled job keeps its
\* current_book_id.
WCheck_keepCurrent ==
    /\ w.pc = "check"
    /\ IF _job_is_cancelled(jobs, w.job_id)
       THEN /\ jobs' = update_metadata_job(jobs, w.job_id,
                           [status |-> "cancelled", finished_at |-> clock])
            /\ clock' = clock + 1
            /\ w' = WorkerIdle
       ELSE /\ w' = [w EXCEPT !.pc = "setcur"]
            /\ UNCHANGED <<jobs, clock>>
    /\ UNCHANGED <<books, events, activity, queue, faults, creq, kreq, s,
                   g, call, ret, catalog>>

\* if _job_is_cancelled(conn, job_id): update(status="cancelled", finished_at,
\* current_book_id=None); return
WCheck ==
    /\ w.pc = "check"
    /\ IF _job_is_cancelled(jobs, w.job_id)
       THEN /\ jobs' = update_metadata_job(jobs, w.job_id,
                           [status |-> "cancelled", finished_at |-> clock,
                            current_book_id |-> NULL])
            /\ clock' = clock + 1
            /\ w' = WorkerIdle
       ELSE /\ w' = [w EXCEPT !.pc = "setcur"]
            /\ UNCHANGED <<jobs, clock>>
    /\ UNCHANGED <<books, events, activity, queue, faults, creq, kreq, s,
                   g, call, ret, catalog>>

\* book_id = int(row["id"]); update_metadata_job(conn, job_id, current_book_id=book_id)
WSetCurrent ==
    /\ w.pc = "setcur"
    /\ jobs' = update_metadata_job(jobs, w.job_id, [current_book_id |-> w.rows[w.idx]])
    /\ w' = [w EXCEPT !.pc = "pipeline"]
    /\ UNCHANGED <<books, events, activity, queue, clock, faults, creq, kreq, s,
                   g, call, ret, catalog>>

\* A faulty variant of the per-record handling: a record without search results
\* is raised past the per-record handler and ends the job.
AfterPipeline_abortOnFailure(ws, outcome) ==
    CASE outcome = "ok" ->
           [ws EXCEPT !.outcome = outcome, !.pc = "rec_ok", !.succeeded = @ + 1, !.selected = TRUE]
      [] outcome = "no_results" ->
           [ws EXCEPT !.outcome = outcome, !.pc = "fatal", !.error = "No metadata results."]
      [] outcome = "ai_failed" ->
           [ws EXCEPT !.outcome = outcome, !.pc = "rec_fail", !.failed = @ + 1, !.selected = TRUE,
                      !.error = "AI cleanup failed"]
      [] outcome = "missing" ->
           [ws EXCEPT !.outcome = outcome, !.pc = "exc", !.selected = FALSE, !.error = "Book not found."]
      [] outcome = "provider_exc" ->
           [ws EXCEPT !.outcome = outcome, !.pc = "exc", !.selected = FALSE, !.error = "provider error"]

\* fetch_book_detail and _process_book for the current record: it returns
\* (True, None, best), (False, message, selected), or raises. outcome keeps
\* which of these happened until the record's counters are written.
AfterPipeline(ws, outcome) ==
    CASE outcome = "ok" ->
           [ws EXCEPT !.outcome = outcome, !.pc = "rec_ok", !.succeeded = @ + 1, !.selected = TRUE]
      [] outcome = "no_results" ->
           [ws EXCEPT !.outcome = outcome, !.pc = "rec_fail", !.failed = @ + 1, !.selected = FALSE,
                      !.error = "No metadata results."]
      [] outcome = "ai_failed" ->
           [ws EXCEPT !.outcome = outcome, !.pc = "rec_fail", !.failed = @ + 1, !.selected = TRUE,
                      !.error = "AI cleanup failed"]
      [] outcome = "missing" ->
           [ws EXCEPT !.outcome = outcome, !.pc = "exc", !.selected = FALSE, !.error = "Book not found."]
      [] outcome = "provider_exc" ->
           [ws EXCEPT !.outcome = outcome, !.pc = "exc", !.selected = FALSE, !.error = "provider error"]

\* _process_book reaches _apply_metadata only when it returns (True, None, best):
\* the record's tags and descriptions are written once more.
AfterApply(cat, book_id, job_id, outcome) ==
    IF outcome = "ok" THEN [cat EXCEPT ![book_id] = Append(@, job_id)] ELSE cat

WPipeline(outcome) ==
    /\ w.pc = "pipeline"
    /\ w' = AfterPipeline(w, outcome)
    /\ catalog' = AfterApply(catalog, w.rows[w.idx], w.job_id, outcome)
    /\ UNCHANGED <<books, jobs, events, activity, queue, clock, faults, creq, kreq, s,
                   g, call, ret>>

\* The payload written with an event (title and author are left out).
Payload(ws, with_selected) ==
    [book_id |-> ws.rows[ws.idx], error |-> ws.error,
     selected |-> with_selected /\ ws.selected,
     processed |-> ws.processed + 1, succeeded |-> ws.succeeded, failed |-> ws.failed]

\* A faulty variant: the failed record's error is not written to the job row.
WFailLastError_skip ==
    /\ w.pc = "rec_fail"
    /\ w' = [w EXCEPT !.pc = "rec_fail_evt"]
    /\ UNCHANGED <<books, jobs, events, activity, queue, clock, faults, creq, kreq, s,
                   g, call, ret, catalog>>

\* not ok: failed += 1 (done); update_metadata_job(conn, job_id, last_error=...)
WFailLastError ==
    /\ w.pc = "rec_fail"
    /\ jobs' = update_metadata_job(jobs, w.job_id, [last_error |-> w.error])
    /\ w' = [w EXCEPT !.pc = "rec_fail_evt"]
    /\ UNCHANGED <<books, events, activity, queue, clock, faults, creq, kreq, s,
                   g, call, ret, catalog>>

\* not ok: create_metadata_job_event(conn, job_id, "book_failed", {...})
WFailEvent ==
    /\ w.pc = "rec_fail_evt"
    /\ events' = create_metadata_job_event(events, w.job_id, "book_failed",
                                           Payload(w, TRUE), clock)
    /\ clock' = clock + 1
    /\ w' = [w EXCEPT !.pc = "counters"]
    /\ UNCHANGED <<books, jobs, activity, queue, faults, creq, kreq, s,
                   g, call, ret, catalog>>

\* ok: succeeded += 1 (done); create_metadata_job_event(..., "book_completed", ...)
WOkEvent ==
    /\ w.pc = "rec_ok"
    /\ events' = create_metadata_job_event(events, w.job_id, "book_completed",
                                           Payload(w, TRUE), clock)
    /\ clock' = clock + 1
    /\ w' = [w EXCEPT !.pc = "counters"]
    /\ UNCHANGED <<books, jobs, activity, queue, faults, creq, kreq, s,
                   g, call, ret, catalog>>

\* except Exception as exc: failed += 1; update(last_error=str(exc))
WExcLastError ==
    /\ w.pc = "exc"
    /\ jobs' = update_metadata_job(jobs, w.job_id, [last_error |-> w.error])
    /\ w' = [w EXCEPT !.pc = "exc_evt", !.failed = @ + 1]
    /\ UNCHANGED <<books, events, activity, queue, clock, faults, creq, kreq, s,
                   g, call, ret, catalog>>

\* except: create_metadata_job_event(conn, job_id, "book_failed", {...})
WExcEvent ==
    /\ w.pc = "exc_evt"
    /\ events' = create_metadata_job_event(events, w.job_id, "book_failed",
                                           Payload(w, FALSE), clock)
    /\ clock' = clock + 1
    /\ w' = [w EXCEPT !.pc = "counters"]
    /\ UNCHANGED <<books, jobs, activity, queue, faults, creq, kreq, s,
                   g, call, ret, catalog>>

\* processed += 1; update(processed_books, succeeded_books, failed_books); next row
WCounters ==
    /\ w.pc = "counters"
    /\ jobs' = update_metadata_job(jobs, w.job_id,
                   [processed_books |-> w.processed + 1,
                    succeeded_books |-> w.succeeded, failed_books |-> w.failed])
    /\ w' = [w EXCEPT !.processed = @ + 1, !.idx = @ + 1, !.error = NoError,
                      !.selected = FALSE, !.outcome = "none",
                      !.pc = IF w.idx + 1 > Len(w.rows) THEN "complete" ELSE "check"]
    /\ UNCHANGED <<books, events, activity, queue, clock, faults, creq, kreq, s,
                   g, call, ret, catalog>>

\* A faulty variant: the loop ends without the write of the status.
WComplete_keepRunning ==
    /\ w.pc = "complete"
    /\ jobs' = update_metadata_job(jobs, w.job_id,
                   [finished_at |-> clock,
                    current_book_id |-> NULL])
    /\ clock' = clock + 1
    /\ w' = WorkerIdle
    /\ UNCHANGED <<books, events, activity, queue, faults, creq, kreq, s,
                   g, call, ret, catalog>>

\* after the loop: update(status="completed", finished_at, current_book_id=None)
WComplete ==
    /\ w.pc = "complete"
    /\ jobs' = update_metadata_job(jobs, w.job_id,
                   [status |-> "completed", finished_at |-> clock,
                    current_book_id |-> NULL])
    /\ clock' = clock + 1
    /\ w' = WorkerIdle
    /\ UNCHANGED <<books, events, activity, queue, faults, creq, kreq, s,
                   g, call, ret, catalog>>

\* A store call raises (sqlite3.OperationalError, or json.dumps on a payload):
\* inside the per-record try the inner handler takes it, elsewhere the outer one.
AfterStoreFault(ws) ==
    IF ws.pc \in TryPositions
    THEN [ws EXCEPT !.pc = "exc", !.error = "store fault"]
    ELSE [ws EXCEPT !.pc = "fatal", !.error = "store fault"]

WStoreFault ==
    /\ w.pc \in TryPositions \cup OuterPositions
    /\ faults < MaxFaults
    /\ faults' = faults + 1
    /\ w' = AfterStoreFault(w)
    /\ UNCHANGED <<books, jobs, events, activity, queue, clock, creq, kreq, s,
                   g, call, ret, catalog>>

\* A faulty variant: the handler records the failure and the loop goes on.
WFatal_resume ==
    /\ w.pc = "fatal"
    /\ jobs' = update_metadata_job(jobs, w.job_id,
                   [status |-> "failed", finished_at |-> clock,
                    last_error |-> w.error, current_book_id |-> NULL])
    /\ clock' = clock + 1
    /\ w' = [w EXCEPT !.pc = "check"]
    /\ UNCHANGED <<books, events, activity, queue, faults, creq, kreq, s,
                   g, call, ret, catalog>>

\* outer except: update(status="failed", finished_at, last_error, current_book_id=None)
WFatal ==
    /\ w.pc = "fatal"
    /\ jobs' = update_metadata_job(jobs, w.job_id,
                   [status |-> "failed", finished_at |-> clock,
                    last_error |-> w.error, current_book_id |-> NULL])
    /\ clock' = clock + 1
    /\ w' = WorkerIdle
    /\ UNCHANGED <<books, events, activity, queue, faults, creq, kreq, s,
                   g, call, ret, catalog>>

\* ------------------------------ GET /batch-actions/metadata/jobs/{id}/stream
StreamIdle ==
    [pc |-> "idle", job_id |-> NULL, last_event_id |-> 0, last_status |-> NoStatus,
     status |-> NoStatus, emitted |-> <<>>]

Msg(kind, status, id, event_type) ==
    [kind |-> kind, status |-> status, id |-> id, event_type |-> event_type]

\* A client subscribes: last_event_id = 0, last_status = None
StreamOpen(j) ==
    /\ s.pc = "idle"
    /\ s' = [StreamIdle EXCEPT !.pc = "read_job", !.job_id = j]
    /\ UNCHANGED <<books, jobs, events, activity, queue, clock, faults, creq, kreq, w,
                   g, call, ret, catalog>>

\* A faulty variant: the status is sent on every poll, changed or not.
StreamReadJob_everyPoll ==
    /\ s.pc = "read_job"
    /\ s' = IF ~JobExists(jobs, s.job_id)
            THEN [s EXCEPT !.pc = "closed",
                           !.emitted = Append(@, Msg("error", NoStatus, 0, ""))]
            ELSE LET status == fetch_metadata_job(jobs, s.job_id).status IN
                 [s EXCEPT !.pc = "read_events", !.status = status,
                           !.last_status = status,
                           !.emitted = Append(@, Msg("status", status, 0, ""))]
    /\ UNCHANGED <<books, jobs, events, activity, queue, clock, faults, creq, kreq, w,
                   g, call, ret, catalog>>

\* job = fetch_metadata_job(...); None -> error, return; a changed status is sent
StreamReadJob ==
    /\ s.pc = "read_job"
    /\ s' = IF ~JobExists(jobs, s.job_id)
            THEN [s EXCEPT !.pc = "closed",
                           !.emitted = Append(@, Msg("error", NoStatus, 0, ""))]
            ELSE LET status == fetch_metadata_job(jobs, s.job_id).status IN
                 [s EXCEPT !.pc = "read_events", !.status = status,
                           !.last_status = status,
                           !.emitted = IF status # s.last_status
                                       THEN Append(@, Msg("status", status, 0, ""))
                                       ELSE @]
    /\ UNCHANGED <<books, jobs, events, activity, queue, clock, faults, creq, kreq, w,
                   g, call, ret, catalog>>

\* for event in fetch_metadata_job_events(conn, job_id, after_id=last_event_id):
\* send it; then done and return when the status read above is terminal
StreamReadEvents ==
    /\ s.pc = "read_events"
    /\ LET evs == fetch_metadata_job_events(events, s.job_id, s.last_event_id)
           sent == [i \in 1..Len(evs) |-> Msg("event", NoStatus, evs[i].id,
                                               evs[i].event_type)]
           final == s.status \in TerminalStatuses
       IN s' = [s EXCEPT !.pc = IF final THEN "closed" ELSE "read_job",
                         !.last_event_id = IF Len(evs) > 0 THEN evs[Len(evs)].id ELSE @,
                         !.emitted = @ \o sent \o
                                     (IF final THEN <<Msg("done", s.status, 0, "")>>
                                      ELSE <<>>)]
    /\ UNCHANGED <<books, jobs, events, activity, queue, clock, faults, creq, kreq, w,
                   g, call, ret, catalog>>

\* ------------------------------------- GET /batch-actions/metadata/jobs/{id}
StatusStart == [pc |-> "start", job_id |-> NULL, result |-> "none", status |-> NoStatus]

\* job = fetch_metadata_job(conn, job_id); None -> 404; else the row is returned
StatusRead(j) ==
    /\ g.pc = "start"
    /\ g' = IF ~JobExists(jobs, j)
            THEN [g EXCEPT !.pc = "done", !.job_id = j, !.result = "notfound"]
            ELSE [g EXCEPT !.pc = "done", !.job_id = j, !.result = "ok",
                           !.status = fetch_metadata_job(jobs, j).status]
    /\ UNCHANGED <<books, jobs, events, activity, queue, clock, faults, creq, kreq,
                   w, s, call, ret, catalog>>

\* ------------------------------------------------------------ configuration
MaxOrderLen == 2        \* entries of the configured inference_order list

DEFAULT_INFERENCE_ORDER == <<"description_clean", "tag_inference">>

\* Entries a config.json can hold in inference_order: the step names, one with
\* surrounding blanks, a per-field step and a name no code knows.
ConfigEntries ==
    {"description_clean", "tag_inference", " tag_inference ",
     "tag_inference_Romance", "unknown_step"}

\* str.strip() on the entries above.
strip(text) == IF text = " tag_inference " THEN "tag_inference" ELSE text

\* What raw.get("inference_order") can be: absent (None), a value that is not a
\* list, or a list of entries.
RECURSIVE SeqsUpTo(_, _)
SeqsUpTo(S, n) ==
    IF n = 0 THEN {<<>>}
    ELSE SeqsUpTo(S, n - 1) \cup
         {Append(q, x) : q \in {r \in SeqsUpTo(S, n - 1) : Len(r) = n - 1}, x \in S}

Configured ==
    {[kind |-> "absent", items |-> <<>>], [kind |-> "scalar", items |-> <<>>]}
    \cup {[kind |-> "list", items |-> q] : q \in SeqsUpTo(ConfigEntries, MaxOrderLen)}

\* A faulty variant: the cleaned list is returned even when it is empty.
get_inference_order_noFallback(configured) ==
    IF configured.kind = "absent" \/ (configured.kind = "list" /\ configured.items = <<>>)
    THEN DEFAULT_INFERENCE_ORDER
    ELSE IF configured.kind # "list" THEN DEFAULT_INFERENCE_ORDER
    ELSE LET allowed == {"description_clean", "tag_inference"}
             kept == SelectSeq(configured.items, LAMBDA x : strip(x) \in allowed)
         IN [i \in 1..Len(kept) |-> strip(kept[i])]

\* get_inference_order: configured = raw.get(...) or DEFAULT; not a list ->
\* default; cleaned = the stripped entries that are in allowed; cleaned or default
get_inference_order(configured) ==
    IF configured.kind = "absent" \/ (configured.kind = "list" /\ configured.items = <<>>)
    THEN DEFAULT_INFERENCE_ORDER
    ELSE IF configured.kind # "list" THEN DEFAULT_INFERENCE_ORDER
    ELSE LET allowed == {"description_clean", "tag_inference"}
             kept == SelectSeq(configured.items, LAMBDA x : strip(x) \in allowed)
             cleaned == [i \in 1..Len(kept) |-> strip(kept[i])]
         IN IF cleaned = <<>> THEN DEFAULT_INFERENCE_ORDER ELSE cleaned

\* ------------------------------------------------------------- AI cleanup
\* LlmProvider.TAG_INFERENCE_FIELDS: <<field, prompt name>>
TAG_INFERENCE_FIELDS ==
    << <<"PrimaryType", "tag_inference_primary_type">>,
       <<"Mode", "tag_inference_mode">>,
       <<"Romance", "tag_inference_romance">>,
       <<"Reader", "tag_inference_reader">>,
       <<"Setting", "tag_inference_setting">> >>

\* name.replace("tag_inference_", "").replace("_", "").lower() on the step
\* names, and candidate.replace("_", "").lower() on the field names.
FieldKey(name) ==
    CASE name \in {"tag_inference_Romance", "Romance"} -> "romance"
      [] name = "PrimaryType" -> "primarytype"
      [] name = "Mode" -> "mode"
      [] name = "Reader" -> "reader"
      [] name = "Setting" -> "setting"
      [] name = "tag_inference" -> "taginference"
      [] name = "description_clean" -> "descriptionclean"
      [] OTHER -> "unknownstep"

\* step.startswith("tag_inference_")
IsFieldStep(step) == step = "tag_inference_Romance"

NoField == "None"

\* resolve_field: the first field whose key equals the step's key, else None
resolve_field(step_name) ==
    LET hits == {i \in DOMAIN TAG_INFERENCE_FIELDS :
                    FieldKey(TAG_INFERENCE_FIELDS[i][1]) = FieldKey(step_name)}
    IN IF hits = {} THEN NoField
       ELSE TAG_INFERENCE_FIELDS[CHOOSE i \in hits : \A k \in hits : i <= k][1]

\* A value of the tag mapping: a scalar, or a list of items, as text.
Scalar(text) == [is_list |-> FALSE, items |-> <<text>>]

\* str(x).strip() on the texts used here: blank texts strip to the empty text,
\* the others lose their surrounding blanks.
value_strip(text) ==
    CASE text \in {"", " "} -> ""
      [] text = " Reasoning " -> "Reasoning"
      [] text = " y " -> "y"
      [] OTHER -> text

\* str.lower() on the keys used here
key_lower(text) ==
    CASE text = "Reasoning" -> "reasoning"
      [] text = "Mode" -> "mode"
      [] text = "Tone" -> "tone"
      [] OTHER -> text

\* _build_tags_from_mapping: mapping is a dict, here the sequence of its
\* <<key, value>> items in insertion order; a tag "key:value" is <<key, value>>.
RECURSIVE _build_tags_from_mapping(_)
_build_tags_from_mapping(tag_mapping) ==
    IF tag_mapping = <<>> THEN <<>>
    ELSE LET key_text == value_strip(Head(tag_mapping)[1])
             value == Head(tag_mapping)[2]
             texts == [i \in DOMAIN value.items |-> value_strip(value.items[i])]
             kept == SelectSeq(texts, LAMBDA x : x # "")
             here == IF key_text = "" THEN <<>>
                     ELSE [i \in DOMAIN kept |-> <<key_text, kept[i]>>]
         IN here \o _build_tags_from_mapping(Tail(tag_mapping))

\* LlmProvider._parse_tag_mapping with an exact comparison of the key
RECURSIVE _parse_tag_mapping_exact(_)
_parse_tag_mapping_exact(parsed) ==
    IF parsed = <<>> THEN <<>>
    ELSE LET key_text == value_strip(Head(parsed)[1])
             value == Head(parsed)[2]
             texts == [i \in DOMAIN value.items |-> value_strip(value.items[i])]
             kept == SelectSeq(texts, LAMBDA x : x # "")
             here == IF key_text = "reasoning" THEN <<>>
                     ELSE IF key_text = "" THEN <<>>
                     ELSE [i \in DOMAIN kept |-> <<key_text, kept[i]>>]
         IN here \o _parse_tag_mapping_exact(Tail(parsed))

\* LlmProvider._parse_tag_mapping: parsed is the JSON object of the model's
\* answer, the sequence of its <<key, value>> items in order.
RECURSIVE _parse_tag_mapping(_)
_parse_tag_mapping(parsed) ==
    IF parsed = <<>> THEN <<>>
    ELSE LET key_text == value_strip(Head(parsed)[1])
             value == Head(parsed)[2]
             texts == [i \in DOMAIN value.items |-> value_strip(value.items[i])]
             kept == SelectSeq(texts, LAMBDA x : x # "")
             here == IF key_lower(key_text) = "reasoning" THEN <<>>
                     ELSE IF key_text = "" THEN <<>>
                     ELSE [i \in DOMAIN kept |-> <<key_text, kept[i]>>]
         IN here \o _parse_tag_mapping(Tail(parsed))

\* Mappings: keys that are plain, equal to "reasoning" up to case and
\* surrounding blanks, or blank; values that are a scalar or a list, with
\* blank texts and texts with surrounding blanks among them.
MaxMapLen == 2          \* items of a mapping
MappingKeys == {"Mode", "Tone", "reasoning", " Reasoning ", " "}
ListOf(items) == [is_list |-> TRUE, items |-> items]
MappingValues ==
    {Scalar("x"), Scalar(" y "), Scalar(" ")}
        \cup {ListOf(<<>>), ListOf(<<"x">>), ListOf(<<"x", " y ">>), ListOf(<<" ", "x">>)}
Mappings ==
    {m \in UNION {[1..n -> MappingKeys \X MappingValues] : n \in 0..MaxMapLen} :
        \A i, k \in DOMAIN m : i # k => m[i][1] # m[k][1]}

\* tag_mapping[field] = value on a dict: replace in place, or add at the end.
DictSet(tag_mapping, field, value) ==
    IF \E i \in DOMAIN tag_mapping : tag_mapping[i][1] = field
    THEN [i \in DOMAIN tag_mapping |->
             IF tag_mapping[i][1] = field THEN <<field, value>> ELSE tag_mapping[i]]
    ELSE Append(tag_mapping, <<field, value>>)

\* What the provider does in a call: clean_description returns a text, returns
\* nothing usable, or raises; tag_inference_split and tag_inference_field
\* return or raise.
ProviderBehaviours ==
    [clean : {"text", "empty", "raise"}, split : {"tags", "raise"},
     field : {"value", "raise"}]

CleanedText == "cleaned description"
SplitTags == << <<"PrimaryType", "Fiction">>, <<"Romance", "0.5">> >>
FieldValue == Scalar("0.5")

\* The loop iteration with a description_clean step that swallows the
\* provider's exception.
AfterCleanupStep_swallow(st, step, prov) ==
    IF st.raised THEN st
    ELSE IF step = "description_clean"
    THEN [st EXCEPT !.calls = Append(@, "clean_description"),
                    !.cleaned = IF prov.clean = "text" THEN CleanedText ELSE @]
    ELSE IF step = "tag_inference"
    THEN IF prov.split = "raise"
         THEN [st EXCEPT !.raised = TRUE, !.calls = Append(@, "tag_inference_split")]
         ELSE [st EXCEPT !.calls = Append(@, "tag_inference_split"),
                         !.tags = SplitTags]
    ELSE IF IsFieldStep(step)
    THEN LET field == resolve_field(step) IN
         IF field = NoField THEN st
         ELSE IF prov.field = "raise"
         THEN [st EXCEPT !.raised = TRUE,
                         !.calls = Append(@, "tag_inference_field " \o field)]
         ELSE [st EXCEPT !.calls = Append(@, "tag_inference_field " \o field),
                         !.tag_mapping = DictSet(@, field, FieldValue),
                         !.tags = _build_tags_from_mapping(
                                      DictSet(st.tag_mapping, field, FieldValue))]
    ELSE st

\* One iteration of the loop of _run_ai_cleanup; calls lists the provider
\* calls made, raised tells that one of them raised.
AfterCleanupStep(st, step, prov) ==
    IF st.raised THEN st
    ELSE IF step = "description_clean"
    THEN IF prov.clean = "raise"
         THEN [st EXCEPT !.raised = TRUE, !.calls = Append(@, "clean_description")]
         ELSE [st EXCEPT !.calls = Append(@, "clean_description"),
                         !.cleaned = IF prov.clean = "text" THEN CleanedText ELSE @]
    ELSE IF step = "tag_inference"
    THEN IF prov.split = "raise"
         THEN [st EXCEPT !.raised = TRUE, !.calls = Append(@, "tag_inference_split")]
         ELSE [st EXCEPT !.calls = Append(@, "tag_inference_split"),
                         !.tags = SplitTags]
    ELSE IF IsFieldStep(step)
    THEN LET field == resolve_field(step) IN
         IF field = NoField THEN st
         ELSE IF prov.field = "raise"
         THEN [st EXCEPT !.raised = TRUE,
                         !.calls = Append(@, "tag_inference_field " \o field)]
         ELSE [st EXCEPT !.calls = Append(@, "tag_inference_field " \o field),
                         !.tag_mapping = DictSet(@, field, FieldValue),
                         !.tags = _build_tags_from_mapping(
                                      DictSet(st.tag_mapping, field, FieldValue))]
    ELSE st

RECURSIVE CleanupLoop(_, _, _)
CleanupLoop(st, steps, prov) ==
    IF steps = <<>> THEN st
    ELSE CleanupLoop(AfterCleanupStep(st, Head(steps), prov), Tail(steps), prov)

\* _run_ai_cleanup(provider, description) under a configured inference order
_run_ai_cleanup(configured, prov, description) ==
    CleanupLoop([cleaned |-> description, tags |-> <<>>, tag_mapping |-> <<>>,
                 calls |-> <<>>, raised |-> FALSE],
                get_inference_order(configured), prov)

\* ---------------------------------------------------------- normalization
\* A text is the sequence of its characters; None and "" are both <<>> (every
\* function below tests "if not value" or returns "text or None").
MaxNameLen == 3         \* characters of a title or an author name
MaxDescLen == 1600      \* characters of a description

\* The characters of author names and of titles: letters (the candidate's
\* author name holds a capital where the query holds the small letter), a
\* comma, a digit, a number sign and the blank. Over these characters
\* fold_to_ascii, strip_bracketed, the "&" replacement and the
\* vol/volume/book/part/series and no/number patterns change nothing.
AuthorQueryChars == {"a", "b", ",", " "}
AuthorCandidateChars == {"a", "B", ",", " "}
TitleChars == {"a", "b", "1", " "}

Digits == {"1"}
Letters == {"a", "b", "B"}
\* The class ["'`~!@#$%^*_=+|\\/;:,?.-] restricted to the characters above.
Punctuation == {",", "#"}

lower(c) == IF c = "B" THEN "b" ELSE c

RECURSIVE SkipWhile(_, _)
SkipWhile(text, S) ==
    IF text # <<>> /\ Head(text) \in S THEN SkipWhile(Tail(text), S) ELSE text

RECURSIVE Reverse(_)
Reverse(text) == IF text = <<>> THEN <<>> ELSE Append(Reverse(Tail(text)), Head(text))

\* str.strip()
text_strip(text) == Reverse(SkipWhile(Reverse(SkipWhile(text, {" "})), {" "}))

\* str.split(): the maximal runs of non-blank characters, in order.
RECURSIVE SplitWords(_, _)
SplitWords(text, cur) ==
    IF text = <<>> THEN (IF cur = <<>> THEN <<>> ELSE <<cur>>)
    ELSE IF Head(text) = " "
    THEN (IF cur = <<>> THEN <<>> ELSE <<cur>>) \o SplitWords(Tail(text), <<>>)
    ELSE SplitWords(Tail(text), Append(cur, Head(text)))

split(text) == SplitWords(text, <<>>)

RECURSIVE Join(_)
Join(words) ==
    IF words = <<>> THEN <<>>
    ELSE IF Len(words) = 1 THEN words[1]
    ELSE words[1] \o <<" ">> \o Join(Tail(words))

\* re.sub(r"\s+", " ", text).strip().lower()
collapse_lower(text) == LET joined == Join(split(text)) IN
    [i \in DOMAIN joined |-> lower(joined[i])]

\* re.sub of the punctuation class by " "
sub_punctuation(text) == [i \in DOMAIN text |-> IF text[i] \in Punctuation THEN " " ELSE text[i]]

\* re.sub(r"(#|no\.?|number)\s*\d+\b", " ", text): a number sign, blanks, digits
\* and then no letter.
RECURSIVE sub_number_marker(_)
sub_number_marker(text) ==
    IF text = <<>> THEN <<>>
    ELSE LET b == SkipWhile(Tail(text), {" "})
             c == SkipWhile(b, Digits)
         IN IF Head(text) = "#" /\ Len(c) < Len(b) /\ (c = <<>> \/ Head(c) \notin Letters)
            THEN <<" ">> \o sub_number_marker(c)
            ELSE <<Head(text)>> \o sub_number_marker(Tail(text))

\* re.sub(r"^\s*\d+\s+", " ", text): a number at the start, followed by a blank
sub_leading_number(text) ==
    LET a == SkipWhile(text, {" "})
        b == SkipWhile(a, Digits)
        c == SkipWhile(b, {" "})
    IN IF Len(b) < Len(a) /\ Len(c) < Len(b) THEN <<" ">> \o c ELSE text

\* re.sub(r"\s+\d+\s*$", " ", text): a number at the end, after a blank
sub_trailing_number(text) ==
    LET a == SkipWhile(Reverse(text), {" "})
        b == SkipWhile(a, Digits)
        c == SkipWhile(b, {" "})
    IN IF Len(b) < Len(a) /\ Len(c) < Len(b) THEN Reverse(c) \o <<" ">> ELSE text

\* normalize_title; None is <<>>
normalize_title(value) ==
    IF value = <<>> THEN <<>>
    ELSE collapse_lower(sub_trailing_number(sub_leading_number(
             sub_punctuation(sub_number_marker(value)))))

\* if "," in text: last, rest = the stripped parts around the first comma;
\* if rest: text = rest + " " + last
swap_last_first(text) ==
    IF \E i \in DOMAIN text : text[i] = ","
    THEN LET i == CHOOSE k \in DOMAIN text :
                      text[k] = "," /\ \A m \in 1..(k - 1) : text[m] # ","
             last == text_strip(SubSeq(text, 1, i - 1))
             rest == text_strip(SubSeq(text, i + 1, Len(text)))
         IN IF rest # <<>> THEN rest \o <<" ">> \o last ELSE text
    ELSE text

\* normalize_author; None is <<>>
normalize_author(value) ==
    IF value = <<>> THEN <<>>
    ELSE collapse_lower(sub_punctuation(swap_last_first(value)))

\* --------------------------------------------------------------- scoring
TARGET_DESC_LEN == 800

\* A score is the fraction <<numerator, denominator>> the code divides out.
Zero == <<0, 1>>
One == <<1, 1>>
RLeq(x, y) == x[1] * y[2] <= y[1] * x[2]
REq(x, y) == x[1] * y[2] = y[1] * x[2]
RAdd(x, y) == <<x[1] * y[2] + y[1] * x[2], x[2] * y[2]>>
RMul(x, y) == <<x[1] * y[1], x[2] * y[2]>>
RHalf(x) == <<x[1], 2 * x[2]>>

\* _tokenize
_tokenize(value) ==
    IF value = <<>> THEN {} ELSE {split(value)[i] : i \in DOMAIN split(value)}

\* A faulty variant: the guard on empty token sets is missing.
author_similarity_noGuard(query, candidate) ==
    LET query_tokens == _tokenize(normalize_author(query))
        cand_tokens == _tokenize(normalize_author(candidate))
    IN <<Cardinality(query_tokens \cap cand_tokens),
         Cardinality(query_tokens \cup cand_tokens)>>

author_similarity(query, candidate) ==
    LET query_tokens == _tokenize(normalize_author(query))
        cand_tokens == _tokenize(normalize_author(candidate))
    IN IF query_tokens = {} \/ cand_tokens = {} THEN Zero
       ELSE <<Cardinality(query_tokens \cap cand_tokens),
              Cardinality(query_tokens \cup cand_tokens)>>

\* A faulty variant: the overlap is divided by the union, as for authors.
title_token_overlap_jaccard(query, candidate) ==
    LET query_tokens == _tokenize(normalize_title(query))
        cand_tokens == _tokenize(normalize_title(candidate))
    IN IF query_tokens = {} \/ cand_tokens = {} THEN Zero
       ELSE <<Cardinality(query_tokens \cap cand_tokens),
              Cardinality(query_tokens \cup cand_tokens)>>

title_token_overlap(query, candidate) ==
    LET query_tokens == _tokenize(normalize_title(query))
        cand_tokens == _tokenize(normalize_title(candidate))
    IN IF query_tokens = {} \/ cand_tokens = {} THEN Zero
       ELSE <<Cardinality(query_tokens \cap cand_tokens), Cardinality(query_tokens)>>

\* A description is absent (None) or has a length.
NoDescription == [present |-> FALSE, len |-> 0]
Description(n) == [present |-> TRUE, len |-> n]

\* A faulty variant: the cap at 1.0 is missing.
desc_score_noCap(description) ==
    IF ~description.present \/ description.len = 0 THEN Zero
    ELSE <<description.len, TARGET_DESC_LEN>>

\* desc_score: 0.0 when not description, else min(len / target_len, 1.0)
desc_score(description) ==
    IF ~description.present \/ description.len = 0 THEN Zero
    ELSE IF description.len >= TARGET_DESC_LEN THEN One
    ELSE <<description.len, TARGET_DESC_LEN>>

\* A faulty variant: the description score is added instead of multiplied.
confidence_score_sum(query_title, query_author, candidate_title, candidate_author, description) ==
    LET identity_score == RHalf(RAdd(author_similarity(query_author, candidate_author),
                                     title_token_overlap(query_title, candidate_title)))
        description_score == desc_score(description)
    IN <<RAdd(identity_score, description_score), description_score, identity_score>>

\* confidence_score: (identity * description, description, identity)
confidence_score(query_title, query_author, candidate_title, candidate_author, description) ==
    LET author_score == author_similarity(query_author, candidate_author)
        title_score == title_token_overlap(query_title, candidate_title)
        identity_score == RHalf(RAdd(author_score, title_score))
        description_score == desc_score(description)
    IN <<RMul(identity_score, description_score), description_score, identity_score>>

\* --------------------------------------------------------- record pipeline
MaxCandidates == 3      \* search results of one record
MaxScore == 2           \* overall_confidence values 0..MaxScore, as multiples of 1/MaxScore

\* overall_confidence of a normalized result: a number, or a value that is not
\* one (isinstance(score, (int, float)) is False).
Scores ==
    {[is_number |-> TRUE, value |-> v] : v \in 0..MaxScore}
    \cup {[is_number |-> FALSE, value |-> 0]}

\* The normalized search results of a record: result_id is the position in
\* the provider's answer.
ResultLists ==
    {[i \in DOMAIN q |-> [result_id |-> i, overall_confidence |-> q[i],
                          description |-> "raw description"]] :
        q \in SeqsUpTo(Scores, MaxCandidates)}

NoResult == [result_id |-> NULL]

\* score = result.get("overall_confidence"); a number, else -1.0
ScoreOf(result) ==
    IF result.overall_confidence.is_number THEN result.overall_confidence.value ELSE -1

\* A faulty variant of the loop: a later result with an equal score replaces best.
RECURSIVE BestFrom_lastMax(_, _, _)
BestFrom_lastMax(best, best_score, rest) ==
    IF rest = <<>> THEN best
    ELSE IF ScoreOf(Head(rest)) >= best_score
    THEN BestFrom_lastMax(Head(rest), ScoreOf(Head(rest)), Tail(rest))
    ELSE BestFrom_lastMax(best, best_score, Tail(rest))

\* for result in results[1:]: if score > best_score: best_score, best = score, result
RECURSIVE BestFrom(_, _, _)
BestFrom(best, best_score, rest) ==
    IF rest = <<>> THEN best
    ELSE IF ScoreOf(Head(rest)) > best_score
    THEN BestFrom(Head(rest), ScoreOf(Head(rest)), Tail(rest))
    ELSE BestFrom(best, best_score, Tail(rest))

_select_best_result_lastMax(results) ==
    IF results = <<>> THEN NoResult
    ELSE BestFrom_lastMax(results[1], ScoreOf(results[1]), Tail(results))

\* _select_best_result: None for an empty list, else the first result of the
\* largest score.
_select_best_result(results) ==
    IF results = <<>> THEN NoResult
    ELSE BestFrom(results[1], ScoreOf(results[1]), Tail(results))

\* _prepare_metadata: the topic tags of the selected result and its description.
_prepare_metadata(result) ==
    [topics |-> << <<"topic", "Fiction">> >>, description |-> result.description]

\* _process_book after the search: select, prepare, AI cleanup, apply. applied
\* tells whether _apply_metadata ran, tags is the merged tag set handed to it.
_process_book(results, configured, prov) ==
    LET best == _select_best_result(results) IN
    IF best = NoResult
    THEN [ok |-> FALSE, error_message |-> "No metadata results.", selected |-> NoResult,
          applied |-> FALSE, tags |-> {}, description |-> "", calls |-> <<>>]
    ELSE LET prepared == _prepare_metadata(best)
             raw_description == prepared.description
             r == _run_ai_cleanup(configured, prov, raw_description)
         IN IF r.raised
            THEN [ok |-> FALSE, error_message |-> "AI cleanup failed", selected |-> best,
                  applied |-> FALSE, tags |-> {}, description |-> "", calls |-> r.calls]
            ELSE [ok |-> TRUE, error_message |-> NoError, selected |-> best,
                  applied |-> TRUE,
                  tags |-> {prepared.topics[i] : i \in DOMAIN prepared.topics}
                               \cup {r.tags[i] : i \in DOMAIN r.tags},
                  description |-> IF r.cleaned # "" THEN r.cleaned ELSE raw_description,
                  calls |-> r.calls]

\* ------------------------------------------------------------------ apply
MaxTags == 2            \* tags of the merged tag list handed to _apply_metadata

\* Tag names: a topic tag, plain tags, one that differs from another in case
\* only, one with surrounding blanks, and a blank one.
TopicA == <<"t", "o", "p", "i", "c", ":", "a">>
TagTexts == {TopicA, <<"a">>, <<"B">>, <<"c">>, <<" ", "c", " ">>, <<" ">>}

\* The tables tags (id = index; name is UNIQUE under the binary collation, so
\* "b" and "B" are two rows), book_tags and the two description columns of
\* books; the record written is book 1, book 2 is another record.
TagRows == <<TopicA, <<"a">>, <<"b">>, <<"B">>>>
OtherBook == 2
Stores ==
    {[tags |-> TagRows,
      book_tags |-> {<<1, i>> : i \in own} \cup {<<OtherBook, i>> : i \in other},
      description |-> <<"old", "old">>,
      raw_description |-> <<"old raw", "old raw">>] :
        own \in SUBSET (DOMAIN TagRows), other \in {{}, {1, 3}}}

\* COLLATE NOCASE / LIKE: upper-case ASCII letters compare as lower-case ones
nocase(name) == [i \in DOMAIN name |-> lower(name[i])]

\* " ".join(name.split())
tag_clean(name) == Join(split(name))

\* A tag of the topic: namespace (name LIKE 'topic:%').
TopicPrefix == <<"t", "o", "p", "i", "c", ":">>
IsTopicTag(name) ==
    Len(name) >= Len(TopicPrefix) /\ SubSeq(nocase(name), 1, Len(TopicPrefix)) = TopicPrefix

\* remove_non_topic_tags_from_book: the record's links to tags outside the
\* topic: namespace are deleted.
remove_non_topic_tags_from_book(store, book_id) ==
    [store EXCEPT !.book_tags =
        {l \in @ : l[1] # book_id \/ IsTopicTag(store.tags[l[2]])}]

\* get_or_create_tag: (None, False) for a blank name; the id of a row whose name
\* equals the cleaned name COLLATE NOCASE (fetchone without ORDER BY: any such
\* row); else a new row. The results are pairs <<tags table, id>>.
get_or_create_tag(tags, name) ==
    LET cleaned == tag_clean(name)
        found == {i \in DOMAIN tags : nocase(tags[i]) = nocase(cleaned)}
    IN IF cleaned = <<>> THEN {<<tags, NULL>>}
       ELSE IF found # {} THEN {<<tags, i>> : i \in found}
       ELSE {<<Append(tags, cleaned), Len(tags) + 1>>}

\* for tag_text in tags: ... tag_ids.append(tag_id) when it is not None. The
\* results are pairs <<tags table, set of tag ids>>.
RECURSIVE ResolveTags(_, _)
ResolveTags(tags, tag_texts) ==
    IF tag_texts = <<>> THEN {<<tags, {}>>}
    ELSE UNION {{<<rest[1], (IF r[2] = NULL THEN {} ELSE {r[2]}) \cup rest[2]>> :
                    rest \in ResolveTags(r[1], Tail(tag_texts))} :
                r \in get_or_create_tag(tags, Head(tag_texts))}

\* INSERT OR IGNORE INTO book_tags (book_id, tag_id)
add_tags_to_book(book_tags, book_id, tag_ids) ==
    book_tags \cup {<<book_id, i>> : i \in tag_ids}

\* description = None is "None"; an empty raw_description is "".
WriteDescriptions(store, book_id, description, raw_description, source) ==
    [store EXCEPT
        !.raw_description = IF source = "google_books" /\ raw_description # ""
                            THEN [@ EXCEPT ![book_id] = raw_description] ELSE @,
        !.description = IF description # "None"
                        THEN [@ EXCEPT ![book_id] = description] ELSE @]

\* A faulty variant: the record's old tags are not removed first.
_apply_metadata_noRemove(store, book_id, tags, description, raw_description, source) ==
    {WriteDescriptions([store EXCEPT !.tags = r[1],
                                     !.book_tags = add_tags_to_book(@, book_id, r[2])],
                       book_id, description, raw_description, source) :
        r \in ResolveTags(store.tags, tags)}

\* _apply_metadata: the stores it can leave.
_apply_metadata(store, book_id, tags, description, raw_description, source) ==
    LET removed == remove_non_topic_tags_from_book(store, book_id) IN
    {WriteDescriptions([removed EXCEPT !.tags = r[1],
                                       !.book_tags = add_tags_to_book(@, book_id, r[2])],
                       book_id, description, raw_description, source) :
        r \in ResolveTags(removed.tags, tags)}

\* merged_tags = list({*base_tags, *ai_tags}): a set of strings, listed in the
\* order of the set's iteration, which is any order.
merged_tags(base_tags, ai_tags) ==
    LET names == {base_tags[i] : i \in DOMAIN base_tags}
                     \cup {ai_tags[i] : i \in DOMAIN ai_tags}
    IN {q \in [1..Cardinality(names) -> names] :
           \A i, k \in DOMAIN q : i # k => q[i] # q[k]}

\* _process_book from the merge on: the stores _apply_metadata can leave
_process_book_apply(store, book_id, base_tags, ai_tags) ==
    UNION {_apply_metadata(store, book_id, m, "new", "new raw", "google_books") :
               m \in merged_tags(base_tags, ai_tags)}

\* A store whose tags table is empty, and one that holds rows already.
MergeStores ==
    {[tags |-> rows, book_tags |-> {}, description |-> <<"old", "old">>,
      raw_description |-> <<"old raw", "old raw">>] : rows \in {<<>>, TagRows}}

\* ---------------------------------------------------------------- prepare
MaxCategories == 2      \* categories of a candidate

\* Categories of a candidate: absent ones, plain ones, paths with "/" and ">",
\* with blanks around the segments and with empty segments, in two cases.
Categories ==
    {<<>>, <<"a">>, <<"a", "/", "B">>, <<"B", ">", "a">>, <<" ", "b", " ", "/", "a">>,
     <<"/">>, <<"b", ">", " ", "/", "a">>}

\* What provider.get_tags gives: nothing (or it raised), plain tags, tags that
\* differ in case only, a blank one, and a tag that spells a topic.
TagCandidateLists ==
    {<<>>, << <<"c">> >>, << <<" ", "B", " ">>, <<"b">> >>, << <<" ">>, <<"a">> >>,
     << <<"t", "o", "p", "i", "c", ":", "B">>, <<"c">> >>}

\* str.replace(">", "/")
replace_gt(text) == [i \in DOMAIN text |-> IF text[i] = ">" THEN "/" ELSE text[i]]

\* str.split("/"): the pieces between the separators, empty ones included
RECURSIVE SplitOn(_, _, _)
SplitOn(text, sep, cur) ==
    IF text = <<>> THEN <<cur>>
    ELSE IF Head(text) = sep THEN <<cur>> \o SplitOn(Tail(text), sep, <<>>)
    ELSE SplitOn(Tail(text), sep, Append(cur, Head(text)))

\* parts = [part.strip() for part in raw.replace(">", "/").split("/") if part.strip()]
topic_parts(raw) ==
    LET pieces == SplitOn(replace_gt(raw), "/", <<>>)
        stripped == [i \in DOMAIN pieces |-> text_strip(pieces[i])]
    IN SelectSeq(stripped, LAMBDA x : x # <<>>)

TopicOf(part) == <<"t", "o", "p", "i", "c", ":">> \o part

\* key = entry.lower(); if key in seen: continue; seen.add(key); topics.append(entry)
RECURSIVE AddEntries(_, _)
AddEntries(st, entries) ==
    IF entries = <<>> THEN st
    ELSE LET key == nocase(Head(entries)) IN
         AddEntries(IF key \in st.seen THEN st
                    ELSE [topics |-> Append(st.topics, Head(entries)),
                          seen |-> st.seen \cup {key}],
                    Tail(entries))

\* for raw in categories: if not raw: continue; the topics of its parts
RECURSIVE AddCategories(_, _)
AddCategories(st, categories) ==
    IF categories = <<>> THEN st
    ELSE LET parts == topic_parts(Head(categories)) IN
         AddCategories(AddEntries(st, [i \in DOMAIN parts |-> TopicOf(parts[i])]),
                       Tail(categories))

\* tag_text = str(tag.tag_text).strip(); if not tag_text: continue
candidate_texts(tag_candidates) ==
    SelectSeq([i \in DOMAIN tag_candidates |-> text_strip(tag_candidates[i])],
              LAMBDA x : x # <<>>)

\* The tag list with the tag candidates appended unseen.
_prepare_metadata_topics_noSeen(categories, tag_candidates) ==
    AddCategories([topics |-> <<>>, seen |-> {}], categories).topics
        \o candidate_texts(tag_candidates)

\* _prepare_metadata, the tag list: topics of the categories, then the
\* provider's tag candidates.
_prepare_metadata_topics(categories, tag_candidates) ==
    AddEntries(AddCategories([topics |-> <<>>, seen |-> {}], categories),
               candidate_texts(tag_candidates)).topics

\* ---------------------------------------------------------- specification
\* No call of a pipeline function is under way.
NoCall == [op |-> "none"]
NoRet == [op |-> "none"]

\* A call of a pipeline function returns.
Returned(value) == [op |-> call.op, value |-> value]

jobVars == <<books, jobs, events, activity, queue, clock, faults, creq, kreq, w, s, g,
            catalog>>

Call_select_best_result ==
    /\ call.op = "_select_best_result" /\ ret = NoRet
    /\ ret' = Returned(_select_best_result(call.results))
    /\ UNCHANGED <<jobVars, call>>

Call_process_book ==
    /\ call.op = "_process_book" /\ ret = NoRet
    /\ ret' = Returned(_process_book(call.results, call.configured, call.prov))
    /\ UNCHANGED <<jobVars, call>>

Call_author_similarity ==
    /\ call.op = "author_similarity" /\ ret = NoRet
    /\ ret' = Returned(author_similarity(call.query, call.candidate))
    /\ UNCHANGED <<jobVars, call>>

Call_title_token_overlap ==
    /\ call.op = "title_token_overlap" /\ ret = NoRet
    /\ ret' = Returned(title_token_overlap(call.query, call.candidate))
    /\ UNCHANGED <<jobVars, call>>

Call_desc_score ==
    /\ call.op = "desc_score" /\ ret = NoRet
    /\ ret' = Returned(desc_score(call.description))
    /\ UNCHANGED <<jobVars, call>>

Call_confidence_score ==
    /\ call.op = "confidence_score" /\ ret = NoRet
    /\ ret' = Returned(confidence_score(call.query_title, call.query_author,
                                        call.candidate_title, call.candidate_author,
                                        call.description))
    /\ UNCHANGED <<jobVars, call>>

\* The state after init_db with the given clients connected and nothing done.
InitJobs(creators, cancellers) ==
    /\ books = 0
    /\ jobs = <<>>
    /\ events = {}
    /\ activity = <<>>
    /\ queue = <<>>
    /\ clock = 1
    /\ faults = 0
    /\ creq = [c \in creators |-> CreateStart]
    /\ kreq = [k \in cancellers |-> CancelStart]
    /\ w = WorkerIdle
    /\ s = StreamIdle
    /\ g = StatusStart
    /\ catalog = <<>>

InitWith(creators, cancellers) ==
    /\ InitJobs(creators, cancellers)
    /\ call = NoCall
    /\ ret = NoRet

Call_apply_metadata ==
    /\ call.op = "_apply_metadata" /\ ret = NoRet
    /\ \E after \in _apply_metadata(call.store, call.book_id, call.tags, call.description,
                                     call.raw_description, call.source) :
           ret' = Returned(after)
    /\ UNCHANGED <<jobVars, call>>

Call_build_tags_from_mapping ==
    /\ call.op = "_build_tags_from_mapping" /\ ret = NoRet
    /\ ret' = Returned(_build_tags_from_mapping(call.tag_mapping))
    /\ UNCHANGED <<jobVars, call>>

Call_parse_tag_mapping ==
    /\ call.op = "_parse_tag_mapping" /\ ret = NoRet
    /\ ret' = Returned(_parse_tag_mapping(call.parsed))
    /\ UNCHANGED <<jobVars, call>>

Call_prepare_metadata ==
    /\ call.op = "_prepare_metadata" /\ ret = NoRet
    /\ ret' = Returned(_prepare_metadata_topics(call.categories, call.tag_candidates))
    /\ UNCHANGED <<jobVars, call>>

Call_process_book_apply ==
    /\ call.op = "_process_book_apply" /\ ret = NoRet
    /\ \E after \in _process_book_apply(call.store, call.book_id, call.base_tags,
                                         call.ai_tags) :
           ret' = Returned(after)
    /\ UNCHANGED <<jobVars, call>>

\* The state in which a function of the record pipeline is called with one of
\* the given argument lists; no job exists.
InitCalls(calls) ==
    /\ InitJobs({}, {})
    /\ call \in calls
    /\ ret = NoRet

CreateNext ==
    \/ \E c \in DOMAIN creq : CreateCheck(c)
    \/ \E c \in DOMAIN creq : CreateInsert(c)
    \/ \E c \in DOMAIN creq : CreateEnqueueOk(c)
    \/ \E c \in DOMAIN creq : CreateEnqueueFail(c)

CancelNext ==
    \/ \E k \in DOMAIN kreq, j \in JobIds : CancelRead(k, j)
    \/ \E k \in DOMAIN kreq : CancelWrite(k)
    \/ \E k \in DOMAIN kreq : CancelRespond(k)

\* The worker, with the outcomes the provider and the catalogue can give a record.
WorkerNext(outcomes) ==
    \/ WDequeue
    \/ WLoad
    \/ WClaim
    \/ WList
    \/ WCheck
    \/ WSetCurrent
    \/ \E o \in outcomes : WPipeline(o)
    \/ WFailLastError
    \/ WFailEvent
    \/ WOkEvent
    \/ WExcLastError
    \/ WExcEvent
    \/ WCounters
    \/ WComplete

StreamNext ==
    \/ \E j \in JobIds : StreamOpen(j)
    \/ StreamReadJob
    \/ StreamReadEvents

\* The worker where every record's pipeline succeeds.
WorkerOkNext ==
    \/ WDequeue
    \/ WLoad
    \/ WClaim
    \/ WList
    \/ WCheck
    \/ WSetCurrent
    \/ WPipeline("ok")
    \/ WOkEvent
    \/ WCounters
    \/ WComplete

StatusNext == \E j \in JobIds : StatusRead(j)

\* An id no job row has: ids are given out in order, one to each creation.
UnknownId == Cardinality(DOMAIN creq) + 1
RunUnknownNext == Call_run_metadata_job(UnknownId)

\* A store call of the worker raises, and the outer handler runs.
FaultNext ==
    \/ WStoreFault
    \/ WFatal

\* Every client, the worker, a stream and store faults.
Init == InitWith(Creators, Cancellers)
Next ==
    \/ AddBook \/ CreateNext \/ CancelNext \/ WorkerNext(Outcomes) \/ FaultNext
    \/ StreamNext \/ StatusNext \/ RunUnknownNext
Spec == Init /\ [][Next]_vars

\* Two clients create jobs concurrently; the worker runs what is queued, and a
\* record succeeds, has no search result or is missing from the catalogue.
InitCreate == InitWith(Creators, {})
NextCreate == AddBook \/ CreateNext \/ WorkerNext({"ok", "no_results", "missing"})
SpecCreate == InitCreate /\ [][NextCreate]_vars

\* One client creates a job, two clients cancel, the worker runs and store
\* calls can raise.
InitCancel == InitWith({"c1"}, Cancellers)
NextCancel == AddBook \/ CreateNext \/ CancelNext \/ WorkerNext(Outcomes) \/ FaultNext
SpecCancel == InitCancel /\ [][NextCancel]_vars

\* One client creates a job, one cancels, one streams it, the worker runs.
InitStream == InitWith({"c1"}, {"k1"})
NextStream == AddBook \/ CreateNext \/ CancelNext \/ WorkerNext(Outcomes) \/ StreamNext
SpecStream == InitStream /\ [][NextStream]_vars

\* The same where every record's pipeline succeeds, the stream's loop keeps
\* polling (while True with a sleep of one second) and the executor's thread
\* keeps running the task it was given.
NextStreamLive == AddBook \/ CreateNext \/ CancelNext \/ WorkerOkNext \/ StreamNext
SpecStreamLive ==
    /\ InitStream /\ [][NextStreamLive]_vars
    /\ WF_vars(StreamNext) /\ WF_vars(WorkerOkNext)

\* One client creates a job, and a cancel request, a status request, a stream
\* and a call of run_metadata_job name ids that may have no row.
InitUnknown == InitWith({"c1"}, {"k1"})
NextUnknown ==
    \/ AddBook \/ CreateNext \/ CancelNext \/ WorkerOkNext
    \/ StreamNext \/ StatusNext \/ RunUnknownNext
SpecUnknown == InitUnknown /\ [][NextUnknown]_vars

\* One client creates a job, one cancels, the worker runs with every outcome
\* of a record and no store call raises; the worker's thread keeps running
\* the call it is in.
InitRun == InitWith({"c1"}, {"k1"})
NextRun == AddBook \/ CreateNext \/ CancelNext \/ WorkerNext(Outcomes)
SpecRunLive == InitRun /\ [][NextRun]_vars /\ WF_vars(WorkerNext(Outcomes))

\* A record's search results are ranked, or a record is processed, under every
\* configured inference order and provider behaviour.
SelectCalls == {[op |-> "_select_best_result", results |-> r] : r \in ResultLists}
ProcessCalls ==
    {[op |-> "_process_book", results |-> r, configured |-> c, prov |-> p] :
        r \in {q \in ResultLists : Len(q) <= 1}, c \in Configured,
        p \in ProviderBehaviours}

InitProcess == InitCalls(SelectCalls \cup ProcessCalls)
NextProcess == Call_select_best_result \/ Call_process_book
SpecProcess == InitProcess /\ [][NextProcess]_vars

\* A candidate is scored against a query: every pair of author names and of
\* titles up to MaxNameLen characters, every description length, and the
\* combined score on names that are absent, plain, reordered, in capitals or
\* without a word.
AuthorQueries == SeqsUpTo(AuthorQueryChars, MaxNameLen)
AuthorCandidates == SeqsUpTo(AuthorCandidateChars, MaxNameLen)
TitleNames == SeqsUpTo(TitleChars, MaxNameLen)
Descriptions == {NoDescription} \cup {Description(n) : n \in 0..MaxDescLen}

AuthorCalls ==
    {[op |-> "author_similarity", query |-> q, candidate |-> c] :
        q \in AuthorQueries, c \in AuthorCandidates}
TitleCalls ==
    {[op |-> "title_token_overlap", query |-> q, candidate |-> c] :
        q \in TitleNames, c \in TitleNames}
DescCalls == {[op |-> "desc_score", description |-> d] : d \in Descriptions}

ScoredTitles == {<<>>, <<"a">>, <<"a", " ", "b">>, <<"#", "1">>}
ScoredAuthors == {<<>>, <<"a">>, <<"a", " ", "b">>, <<"b", ",", "a">>, <<"B", " ", "a">>}
ScoredDescriptions ==
    {NoDescription, Description(0), Description(400), Description(TARGET_DESC_LEN),
     Description(MaxDescLen)}
ConfidenceCalls ==
    {[op |-> "confidence_score", query_title |-> qt, query_author |-> qa,
      candidate_title |-> ct, candidate_author |-> ca, description |-> d] :
        qt \in ScoredTitles, ct \in ScoredTitles, qa \in ScoredAuthors,
        ca \in ScoredAuthors, d \in ScoredDescriptions}

\* _apply_metadata is called on book 1 of a store with every merged tag list.
ApplyCalls ==
    {[op |-> "_apply_metadata", store |-> st, book_id |-> 1, tags |-> tg,
      description |-> d[1], raw_description |-> d[2], source |-> d[3]] :
        st \in Stores, tg \in SeqsUpTo(TagTexts, MaxTags),
        d \in {<<"new", "new raw", "google_books">>, <<"None", "new raw", "other">>,
               <<"new", "", "google_books">>}}
InitApply == InitCalls(ApplyCalls)
NextApply == Call_apply_metadata
SpecApply == InitApply /\ [][NextApply]_vars

InitScore == InitCalls(AuthorCalls \cup TitleCalls \cup DescCalls \cup ConfidenceCalls)
NextScore ==
    \/ Call_author_similarity
    \/ Call_title_token_overlap
    \/ Call_desc_score
    \/ Call_confidence_score
SpecScore == InitScore /\ [][NextScore]_vars

\* A mapping is flattened by the job's pipeline or by the provider.
MappingCalls ==
    {[op |-> "_build_tags_from_mapping", tag_mapping |-> m] : m \in Mappings}
        \cup {[op |-> "_parse_tag_mapping", parsed |-> m] : m \in Mappings}
InitMapping == InitCalls(MappingCalls)
NextMapping == Call_build_tags_from_mapping \/ Call_parse_tag_mapping
SpecMapping == InitMapping /\ [][NextMapping]_vars

\* A candidate's categories and tag candidates are turned into the tag list.
PrepareCalls ==
    {[op |-> "_prepare_metadata", categories |-> c, tag_candidates |-> tc] :
        c \in SeqsUpTo(Categories, MaxCategories), tc \in TagCandidateLists}
InitPrepare == InitCalls(PrepareCalls)
NextPrepare == Call_prepare_metadata
SpecPrepare == InitPrepare /\ [][NextPrepare]_vars

\* The prepared tags (no two equal ignoring case, as _prepare_metadata leaves
\* them) and the inferred tags of a record are merged and applied.
MergeCalls ==
    {[op |-> "_process_book_apply", store |-> st, book_id |-> 1, base_tags |-> b,
      ai_tags |-> a] :
        st \in MergeStores,
        b \in {q \in SeqsUpTo({TopicA, <<"b">>, <<"c">>}, MaxTags) :
                  \A i, k \in DOMAIN q : i # k => q[i] # q[k]},
        a \in SeqsUpTo({<<"a">>, <<"B">>, <<"c">>}, MaxTags)}
InitMerge == InitCalls(MergeCalls)
NextMerge == Call_process_book_apply
SpecMerge == InitMerge /\ [][NextMerge]_vars

\* ------------------------------------------------------------------ claims
EventsOf(j) == {e \in events : e.job_id = j}

\* C1: single-flight: in every reachable state at most one job row has status
\* queued or running, whatever the interleaving of the CreateJob requests.
C1_SingleFlight == Cardinality(ActiveJobIds(jobs)) <= 1

\* C2: terminal statuses are final: no step changes the status of a job that is
\* completed, failed or cancelled, and every status change is one of
\* queued->running, queued/running->cancelled, running->completed,
\* queued/running->failed.
C2_Transitions ==
    {<<"queued", "running">>, <<"queued", "cancelled">>, <<"running", "cancelled">>,
     <<"running", "completed">>, <<"queued", "failed">>, <<"running", "failed">>}

C2_TerminalFinal ==
    [][\A j \in DOMAIN jobs :
          /\ jobs[j].status \in TerminalStatuses => jobs'[j].status = jobs[j].status
          /\ jobs'[j].status # jobs[j].status =>
                 <<jobs[j].status, jobs'[j].status>> \in C2_Transitions]_vars

\* C3: in every stored state of a job processed_books = succeeded_books +
\* failed_books and each of the three is at most total_books, also when a store
\* call inside the per-record try section raises.
C3_CounterInvariant ==
    \A j \in DOMAIN jobs :
        /\ jobs[j].processed_books = jobs[j].succeeded_books + jobs[j].failed_books
        /\ jobs[j].processed_books <= jobs[j].total_books
        /\ jobs[j].succeeded_books <= jobs[j].total_books
        /\ jobs[j].failed_books <= jobs[j].total_books

\* C4: once a cancel of a running job is committed, the worker starts no further
\* record: while the stored status is cancelled, current_book_id never moves to
\* another record, so the record stored when the cancel was committed is the
\* last one attempted.
C4_NoRecordAfterCancel ==
    [][\A j \in DOMAIN jobs :
          (jobs[j].status = "cancelled" /\ jobs[j].started_at # NULL) =>
              jobs'[j].current_book_id \in {jobs[j].current_book_id, NULL}]_vars

\* C5: a per-record failure never ends the job: a job that was started, that no
\* cancel request was committed for and whose run met no raising store call ends
\* completed with every listed record processed, one event per record, the
\* book_failed events counted by failed_books and last_error set when any failed.
RunOver(j) == jobs[j].started_at # NULL /\ w.job_id # j

C5_PartialFailure ==
    \A j \in DOMAIN jobs :
        (RunOver(j) /\ jobs[j].cancelled_at = NULL /\ faults = 0) =>
            /\ jobs[j].status = "completed"
            /\ jobs[j].processed_books = jobs[j].total_books
            /\ jobs[j].succeeded_books + jobs[j].failed_books = jobs[j].total_books
            /\ Cardinality(EventsOf(j)) = jobs[j].total_books
            /\ {e.payload.book_id : e \in EventsOf(j)} = 1..jobs[j].total_books
            /\ Cardinality({e \in EventsOf(j) : e.event_type = "book_failed"})
                   = jobs[j].failed_books
            /\ jobs[j].failed_books > 0 => jobs[j].last_error # NoError

C5_Witness ==
    \E j \in DOMAIN jobs :
        /\ RunOver(j) /\ jobs[j].cancelled_at = NULL /\ faults = 0
        /\ jobs[j].status = "completed"
        /\ jobs[j].total_books = 2
        /\ jobs[j].failed_books = 2

\* C6: the stream is a complete audit trail: once a stream of a job has sent
\* done, every book_completed or book_failed event the worker wrote for that job
\* has been sent by it exactly once.
SentCount(id) ==
    Cardinality({i \in DOMAIN s.emitted :
                    s.emitted[i].kind = "event" /\ s.emitted[i].id = id})

StreamDone ==
    /\ s.pc = "closed"
    /\ Len(s.emitted) > 0
    /\ s.emitted[Len(s.emitted)].kind = "done"

C6_AuditTrail ==
    StreamDone => \A e \in EventsOf(s.job_id) : SentCount(e.id) = 1

\* C7: event ids strictly increase in append order, event rows are never
\* modified or removed, and for every job and cursor k the fetch returns exactly
\* the rows of that job with id > k, in ascending id order.
C7_FetchExact ==
    \A j \in JobIds, k \in 0..MaxEventId(events) :
        LET r == fetch_metadata_job_events(events, j, k) IN
        /\ \A i \in 1..(Len(r) - 1) : r[i].id < r[i + 1].id
        /\ {r[i].id : i \in 1..Len(r)} = {e.id : e \in {x \in events : x.job_id = j /\ x.id > k}}
        /\ \A i \in 1..Len(r) :
               \E e \in events : /\ e.id = r[i].id /\ e.job_id = j
                                 /\ e.event_type = r[i].event_type
                                 /\ e.payload = r[i].payload

C7_AppendOnly ==
    /\ \A e \in events : e \in events'
    /\ \A e \in events' \ events : \A o \in events : o.id < e.id

C7_EventCursor == [](C7_FetchExact) /\ [][C7_AppendOnly]_vars

C7_Witness ==
    \E j \in DOMAIN jobs, k \in 1..MaxEventId(events) :
        /\ Len(fetch_metadata_job_events(events, j, k)) >= 1
        /\ \E e \in events : e.job_id # j /\ e.id > k

\* C8: a CreateJob request whose check runs while a job is queued or running
\* answers conflict and changes nothing: no job row inserted or modified, nothing
\* enqueued, no event written, and the request does nothing afterwards.
C8_ConflictStep(c) ==
    (creq[c].pc = "start" /\ creq'[c].pc # "start"
        /\ \E j \in DOMAIN jobs : jobs[j].status \in {"queued", "running"}) =>
        /\ creq'[c].pc = "done" /\ creq'[c].result = "conflict"
        /\ creq'[c].job_id = NULL
        /\ UNCHANGED <<jobs, queue, events, activity>>

C8_Conflict ==
    [][\A c \in DOMAIN creq :
          /\ C8_ConflictStep(c)
          /\ creq[c].result = "conflict" => creq'[c] = creq[c]]_vars

C8_Witness ==
    \E c \in DOMAIN creq :
        /\ creq[c].result = "conflict"
        /\ \E j \in DOMAIN jobs : jobs[j].status = "queued"

\* C9 as stated, on the jobs it names (handed to the worker): for every job in a
\* terminal status exactly one of finished_at and cancelled_at is set, never
\* both.
Enqueued(j) == \E c \in DOMAIN creq : creq[c].job_id = j /\ creq[c].result = "queued"

C9_ExactlyOneStamp ==
    \A j \in DOMAIN jobs :
        (jobs[j].status \in TerminalStatuses /\ Enqueued(j)) =>
            (jobs[j].finished_at # NULL) # (jobs[j].cancelled_at # NULL)

\* C9 as amended: for every job in a terminal status at least one of finished_at
\* and cancelled_at is set: finished_at when the status is completed or failed,
\* cancelled_at when it is cancelled, and a cancelled job has finished_at set as
\* well once the worker or the enqueue-failure path is through with it.
Pending(j) ==
    \/ \E i \in DOMAIN queue : queue[i] = j
    \/ w.job_id = j
    \/ \E c \in DOMAIN creq : creq[c].job_id = j /\ creq[c].pc = "enqueue"

C9_Stamps ==
    \A j \in DOMAIN jobs :
        /\ jobs[j].status \in {"completed", "failed"} => jobs[j].finished_at # NULL
        /\ jobs[j].status = "cancelled" =>
               /\ jobs[j].cancelled_at # NULL
               /\ ~Pending(j) => jobs[j].finished_at # NULL

C9_Witness ==
    \E j \in DOMAIN jobs :
        /\ jobs[j].status = "cancelled" /\ ~Pending(j) /\ jobs[j].started_at # NULL
        /\ jobs[j].finished_at # NULL /\ jobs[j].cancelled_at # NULL

\* C10: a cancel request that finds the job completed, failed or cancelled
\* changes no field of any job row and reports success, so a repeated cancel
\* leaves the job as the first one left it.
C10_NoOpStep(k) ==
    /\ (kreq[k].pc = "start" /\ kreq'[k].pc # "start"
           /\ JobExists(jobs, kreq'[k].job_id)
           /\ jobs[kreq'[k].job_id].status \in TerminalStatuses) =>
           (jobs' = jobs /\ events' = events /\ kreq'[k].pc = "respond")
    /\ (kreq[k].pc = "respond" /\ kreq'[k].pc # "respond") =>
           (jobs' = jobs /\ kreq'[k].pc = "done" /\ kreq'[k].result = "ok")

C10_CancelIdempotent == [][\A k \in DOMAIN kreq : C10_NoOpStep(k)]_vars

C10_Witness ==
    \E k \in DOMAIN kreq :
        /\ kreq[k].pc = "done" /\ kreq[k].result = "ok"
        /\ jobs[kreq[k].job_id].status = "completed"
        /\ jobs[kreq[k].job_id].cancelled_at = NULL

\* C11: for a record whose search returns zero candidates, when its counters
\* are written failed_books has increased by exactly 1, succeeded_books is
\* unchanged, exactly one event exists for the record, it is a book_failed
\* event, and its error and the job's last_error are the text
\* "No metadata results".
C11_Text == "No metadata results"

C11_RecordEvents == {e \in EventsOf(w.job_id) : e.payload.book_id = w.rows[w.idx]}

C11_NoResults ==
    [][(w.pc = "counters" /\ w'.pc \in {"check", "complete"}
           /\ w.outcome = "no_results") =>
          /\ jobs'[w.job_id].failed_books = jobs[w.job_id].failed_books + 1
          /\ jobs'[w.job_id].succeeded_books = jobs[w.job_id].succeeded_books
          /\ Cardinality(C11_RecordEvents) = 1
          /\ \A e \in C11_RecordEvents :
                 e.event_type = "book_failed" /\ e.payload.error = C11_Text
          /\ jobs'[w.job_id].last_error = C11_Text]_vars

\* C12: with the configured order [tag_inference_Romance, description_clean]
\* the Romance field inference is called before clean_description, and the tag
\* set of the record holds a Romance tag, also when clean_description raises.
C12_Order == [kind |-> "list", items |-> <<"tag_inference_Romance", "description_clean">>]

C12_RomanceFirst ==
    (ret # NoRet /\ call.op = "_process_book" /\ call.configured = C12_Order
        /\ call.results # <<>> /\ call.prov.field = "value") =>
        /\ \E i, k \in DOMAIN ret.value.calls :
               /\ i < k
               /\ ret.value.calls[i] = "tag_inference_field Romance"
               /\ ret.value.calls[k] = "clean_description"
        /\ ret.value.applied
        /\ \E tag \in ret.value.tags : tag[1] = "Romance"

\* C13: for every non-empty candidate list _select_best_result returns one of
\* the candidates, no candidate has a larger overall_confidence, no candidate
\* with the same overall_confidence stands before it in the list, and the list
\* is left as it was.
C13_Selected ==
    (ret # NoRet /\ call.op = "_select_best_result" /\ call.results # <<>>) =>
        /\ \E i \in DOMAIN call.results : call.results[i] = ret.value
        /\ \A k \in DOMAIN call.results :
               /\ ScoreOf(call.results[k]) <= ScoreOf(ret.value)
               /\ ScoreOf(call.results[k]) = ScoreOf(ret.value) => ret.value.result_id <= k

C13_BestFirst == [](C13_Selected) /\ [][call' = call]_vars

C13_Witness ==
    /\ ret # NoRet /\ call.op = "_select_best_result" /\ Len(call.results) = 3
    /\ ScoreOf(call.results[1]) < ScoreOf(call.results[2])
    /\ ScoreOf(call.results[2]) = ScoreOf(call.results[3])
    /\ ret.value.result_id = 2

InUnit(x) == x[2] > 0 /\ RLeq(Zero, x) /\ RLeq(x, One)

C14_Returned == ret # NoRet /\ call.op = "confidence_score"

C14_ExactMatch ==
    /\ call.query_title # <<>> /\ call.query_title = call.candidate_title
    /\ call.query_author # <<>> /\ call.query_author = call.candidate_author
    /\ call.description.present /\ call.description.len >= TARGET_DESC_LEN

C14_Common ==
    /\ REq(ret.value[1], RMul(ret.value[3], ret.value[2]))
    /\ InUnit(ret.value[1]) /\ InUnit(ret.value[2]) /\ InUnit(ret.value[3])
    /\ (~call.description.present \/ call.description.len = 0) => REq(ret.value[1], Zero)

\* C14 as stated: confidence_score returns (overall, descScore, identityScore)
\* with overall = identityScore * descScore and all three in [0,1]; an exact
\* title and author match with a description of at least 800 characters gives
\* (1, 1, 1); an empty or absent description gives overall 0.
C14_Score ==
    C14_Returned =>
        /\ C14_Common
        /\ C14_ExactMatch =>
               REq(ret.value[1], One) /\ REq(ret.value[2], One) /\ REq(ret.value[3], One)

\* C14 as amended: the same, where the exact match gives (1, 1, 1) when the
\* title and the author each normalize to at least one token.
C14_ScoreTokens ==
    C14_Returned =>
        /\ C14_Common
        /\ (C14_ExactMatch /\ _tokenize(normalize_title(call.query_title)) # {}
               /\ _tokenize(normalize_author(call.query_author)) # {}) =>
               REq(ret.value[1], One) /\ REq(ret.value[2], One) /\ REq(ret.value[3], One)

C14_Witness ==
    /\ C14_Returned /\ C14_ExactMatch
    /\ call.query_title = <<"a", " ", "b">> /\ call.query_author = <<"b", ",", "a">>
    /\ REq(ret.value[1], One) /\ REq(ret.value[2], One) /\ REq(ret.value[3], One)

\* C15: desc_score(description) is min(len(description) / 800, 1): 0 for an
\* empty or absent description, 1/2 at length 400, 1 at length 800 and for
\* every longer description, and no shorter description scores more.
C15_DescScore ==
    (ret # NoRet /\ call.op = "desc_score") =>
        LET d == call.description IN
        /\ ret.value[2] > 0
        /\ (~d.present \/ d.len = 0) => REq(ret.value, Zero)
        /\ d.present => /\ d.len <= 800 => REq(ret.value, <<d.len, 800>>)
                        /\ d.len >= 800 => REq(ret.value, One)
                        /\ d.len = 400 => REq(ret.value, <<1, 2>>)
                        /\ \A n \in 0..d.len : RLeq(desc_score(Description(n)), ret.value)

C15_Witness ==
    /\ ret # NoRet /\ call.op = "desc_score"
    /\ call.description.present /\ call.description.len = 2 * TARGET_DESC_LEN
    /\ REq(ret.value, One)

C16_AuthorTokens(name) == _tokenize(normalize_author(name))
C16_TitleTokens(title) == _tokenize(normalize_title(title))
C16_Jaccard(Q, C) == <<Cardinality(Q \cap C), Cardinality(Q \cup C)>>
C16_Recall(Q, C) == <<Cardinality(Q \cap C), Cardinality(Q)>>

\* C16: over non-empty token sets author_similarity returns the Jaccard index
\* |Q n C| / |Q u C| of the normalized author token sets, so it is symmetric
\* and is 1 whenever the two names have the same tokens in any order and case;
\* title_token_overlap returns the recall |Q n C| / |Q| of the query title's
\* tokens, so it is 1 whenever the candidate holds every query token, while
\* swapping "a" and "a b" changes it from 1 to 1/2; and the identity score of
\* confidence_score is the average of the two.
C16_Identity ==
    ret # NoRet =>
        /\ call.op = "author_similarity" =>
               LET Q == C16_AuthorTokens(call.query)
                   C == C16_AuthorTokens(call.candidate)
               IN /\ (Q # {} /\ C # {}) => REq(ret.value, C16_Jaccard(Q, C))
                  /\ REq(ret.value, author_similarity(call.candidate, call.query))
                  /\ (Q # {} /\ Q = C) => REq(ret.value, One)
        /\ call.op = "title_token_overlap" =>
               LET Q == C16_TitleTokens(call.query)
                   C == C16_TitleTokens(call.candidate)
               IN /\ (Q # {} /\ C # {}) => REq(ret.value, C16_Recall(Q, C))
                  /\ (Q # {} /\ Q \subseteq C) => REq(ret.value, One)
                  /\ (call.query = <<"a">> /\ call.candidate = <<"a", " ", "b">>) =>
                         /\ REq(ret.value, One)
                         /\ REq(title_token_overlap(call.candidate, call.query), <<1, 2>>)
        /\ call.op = "confidence_score" =>
               LET QA == C16_AuthorTokens(call.query_author)
                   CA == C16_AuthorTokens(call.candidate_author)
                   QT == C16_TitleTokens(call.query_title)
                   CT == C16_TitleTokens(call.candidate_title)
               IN (QA # {} /\ CA # {} /\ QT # {} /\ CT # {}) =>
                      REq(ret.value[3],
                          RHalf(RAdd(C16_Jaccard(QA, CA), C16_Recall(QT, CT))))

\* "b,a" against "B a" (as 'Doe, Jane' against 'Jane Doe') with the title "a"
\* against "a b": both similarities are 1 and so is their average.
C16_Witness ==
    /\ ret # NoRet /\ call.op = "confidence_score"
    /\ call.query_author = <<"b", ",", "a">> /\ call.candidate_author = <<"B", " ", "a">>
    /\ call.query_title = <<"a">> /\ call.candidate_title = <<"a", " ", "b">>
    /\ REq(ret.value[3], One)

\* C17: whenever the query's or the candidate's token set is empty,
\* author_similarity and title_token_overlap return 0, and the divisor of the
\* returned quotient is never zero.
C17_Degenerate ==
    (ret # NoRet /\ call.op \in {"author_similarity", "title_token_overlap"}) =>
        LET Q == IF call.op = "author_similarity" THEN C16_AuthorTokens(call.query)
                 ELSE C16_TitleTokens(call.query)
            C == IF call.op = "author_similarity" THEN C16_AuthorTokens(call.candidate)
                 ELSE C16_TitleTokens(call.candidate)
        IN /\ ret.value[2] # 0
           /\ (Q = {} \/ C = {}) => ret.value[1] = 0

\* A name that normalizes to nothing against an absent one.
C17_Witness ==
    /\ ret # NoRet /\ call.op = "author_similarity"
    /\ call.query = <<",">> /\ call.candidate = <<>>
    /\ C16_AuthorTokens(call.query) = {}
    /\ REq(ret.value, Zero)

C18_StatusPositions(emitted) == {i \in DOMAIN emitted : emitted[i].kind = "status"}

C18_LastStatus(emitted) ==
    IF C18_StatusPositions(emitted) = {} THEN NoStatus
    ELSE LET last == CHOOSE i \in C18_StatusPositions(emitted) :
                        \A k \in C18_StatusPositions(emitted) : k <= i
         IN emitted[last].status

\* the stream polls an existing job whose status differs from the last one sent
C18_Changed ==
    /\ s.pc = "read_job" /\ JobExists(jobs, s.job_id)
    /\ fetch_metadata_job(jobs, s.job_id).status # C18_LastStatus(s.emitted)

C18_StatusStep ==
    /\ (C18_Changed /\ s' # s) =>
           s'.emitted = Append(s.emitted,
                               Msg("status", fetch_metadata_job(jobs, s.job_id).status, 0, ""))
    /\ ~(C18_Changed /\ s' # s) =>
           C18_StatusPositions(s'.emitted) = C18_StatusPositions(s.emitted)
    /\ s'.last_event_id >= s.last_event_id
    /\ StreamDone => s'.emitted = s.emitted

C18_Order ==
    /\ \A i, k \in DOMAIN s.emitted :
           (i < k /\ s.emitted[i].kind = "event" /\ s.emitted[k].kind = "event") =>
               s.emitted[i].id < s.emitted[k].id
    /\ \A i \in DOMAIN s.emitted :
           s.emitted[i].kind = "done" =>
               /\ i = Len(s.emitted)
               /\ \E k \in 1..(i - 1) : /\ s.emitted[k].kind = "status"
                                        /\ s.emitted[k].status \in TerminalStatuses

C18_Polling ==
    /\ s.pc \in {"read_job", "read_events"}
    /\ JobExists(jobs, s.job_id) /\ jobs[s.job_id].status \in TerminalStatuses

\* C18: a step of the stream adds a status message exactly when the polled
\* status differs from the last status sent; the events sent have ascending ids
\* and the cursor never decreases; done is the last message and follows a
\* status message with a terminal status; nothing is sent after done; and a
\* stream polling a job whose stored status is terminal eventually sends done.
C18_Stream ==
    /\ [](C18_Order)
    /\ [][C18_StatusStep]_vars
    /\ C18_Polling ~> StreamDone

\* The stream sent running, then a record's event, then the final status, done.
C18_Witness ==
    /\ StreamDone
    /\ Cardinality(C18_StatusPositions(s.emitted)) >= 2
    /\ \E i \in DOMAIN s.emitted : s.emitted[i].kind = "event"
    /\ s.last_event_id > 0

C19_StoreUnchanged == UNCHANGED <<jobs, events, activity, queue, books>>

C19_UnknownStep ==
    /\ \A k \in DOMAIN kreq :
           (kreq[k].pc = "start" /\ kreq'[k].pc # "start"
               /\ ~JobExists(jobs, kreq'[k].job_id)) =>
               /\ kreq'[k].pc = "done" /\ kreq'[k].result = "notfound"
               /\ C19_StoreUnchanged
    /\ (g.pc = "start" /\ g'.pc # "start" /\ ~JobExists(jobs, g'.job_id)) =>
           /\ g'.pc = "done" /\ g'.result = "notfound"
           /\ C19_StoreUnchanged
    /\ (s.pc = "read_job" /\ s' # s /\ ~JobExists(jobs, s.job_id)) =>
           /\ s'.pc = "closed" /\ s'.emitted = <<Msg("error", NoStatus, 0, "")>>
           /\ C19_StoreUnchanged
    /\ (w.pc = "load" /\ w' # w /\ ~JobExists(jobs, w.job_id)) =>
           /\ w' = WorkerIdle
           /\ C19_StoreUnchanged
    /\ s.pc = "closed" => s' = s
    /\ \A k \in DOMAIN kreq : kreq[k].pc = "done" => kreq'[k] = kreq[k]

C19_Ended ==
    /\ \A k \in DOMAIN kreq : kreq[k].result = "notfound" => kreq[k].pc = "done"
    /\ (\E i \in DOMAIN s.emitted : s.emitted[i].kind = "error") =>
           s.pc = "closed" /\ Len(s.emitted) = 1

\* C19: a cancel request, a status request, a poll of the stream and a call of
\* run_metadata_job that find no row for their job id answer not-found (the
\* stream sends one error message and closes, the worker returns) and leave job
\* rows, events, the activity log and the queue as they were; the request and
\* the stream do nothing afterwards.
C19_Unknown == [](C19_Ended) /\ [][C19_UnknownStep]_vars

\* A job exists, the cancel request, the status request and the stream were
\* answered not-found before, and run_metadata_job has been called with an id
\* no row has.
C19_Witness ==
    /\ Len(jobs) >= 1
    /\ \E k \in DOMAIN kreq : kreq[k].result = "notfound"
    /\ g.result = "notfound"
    /\ s.pc = "closed" /\ s.emitted = <<Msg("error", NoStatus, 0, "")>>
    /\ w.pc = "load" /\ w.job_id = UnknownId

\* the outer handler of run_metadata_job runs
C20_HandlerStep == w.pc = "fatal" /\ w' # w

\* a job the outer handler has ended, the worker no longer on it
C20_Ended(j) ==
    /\ jobs[j].status = "failed" /\ jobs[j].finished_at # NULL
    /\ w.job_id # j

C20_FatalStep ==
    /\ C20_HandlerStep =>
           /\ jobs'[w.job_id].status = "failed"
           /\ jobs'[w.job_id].finished_at = clock
           /\ jobs'[w.job_id].last_error = w.error
           /\ jobs'[w.job_id].current_book_id = NULL
           /\ jobs'[w.job_id].processed_books = jobs[w.job_id].processed_books
           /\ w' = WorkerIdle
           /\ events' = events
    /\ \A j \in DOMAIN jobs :
           C20_Ended(j) =>
               /\ EventsOf(j)' = EventsOf(j)
               /\ jobs'[j].processed_books = jobs[j].processed_books
               /\ jobs'[j].current_book_id = NULL
               /\ w'.job_id # j

\* C20: when an exception reaches the outer handler of run_metadata_job, the
\* handler's step writes status failed, finished_at, last_error with the
\* exception's message and current_book_id null, and the worker leaves the job:
\* the job is not queued again, and no event is written and no counter moves
\* for it afterwards.
C20_Fatal ==
    /\ [][C20_FatalStep]_vars
    /\ [](w.pc = "fatal" => \A i \in DOMAIN queue : queue[i] # w.job_id)

\* The handler has ended a job of two records before the second was processed.
C20_Witness ==
    /\ w.pc = "idle" /\ faults = 1
    /\ \E j \in DOMAIN jobs :
           /\ jobs[j].status = "failed" /\ jobs[j].finished_at # NULL
           /\ jobs[j].last_error = "store fault" /\ jobs[j].current_book_id = NULL
           /\ jobs[j].total_books = 2 /\ jobs[j].processed_books = 1

\* the store calls that persist the current record's outcome
C21_PersistPositions ==
    {"rec_fail", "rec_fail_evt", "rec_ok", "exc", "exc_evt", "counters"}

\* C21: a store call that raises while the worker writes last_error, a job
\* event or the counters of the current record takes the worker to the outer
\* handler, which ends the job as failed; it is never handled as a failure of
\* the current record.
C21_PersistFatal ==
    [][(faults' = faults + 1 /\ w.pc \in C21_PersistPositions) => w'.pc = "fatal"]_vars

C23_WrittenBy(b) == {catalog[b][i] : i \in DOMAIN catalog[b]}

\* a record that a job ended with book_failed was not written by that job
C23_FailedUntouched ==
    \A e \in events :
        e.event_type = "book_failed" => e.job_id \notin C23_WrittenBy(e.payload.book_id)

\* a step changes the catalogue state of the worker's current record only
C23_Frame ==
    \A b \in DOMAIN catalog :
        catalog'[b] # catalog[b] => (w.pc = "pipeline" /\ w.rows[w.idx] = b)

\* C23: the catalogue is written only by the Apply step: a record that ends
\* with book_failed has the tags and descriptions it had before the record, and
\* a record's step leaves the catalogue state of every other record as it was.
C23_OnlyApply == [](C23_FailedUntouched) /\ [][C23_Frame]_vars

\* the names of the tags attached to a record
C22_Attached(store, book_id) ==
    {store.tags[l[2]] : l \in {x \in store.book_tags : x[1] = book_id}}

\* two names the tag store takes for the same tag: equal after collapsing
\* blanks, compared without case
C22_SameTag(x, y) == nocase(tag_clean(x)) = nocase(tag_clean(y))

C22_Merged == {call.tags[i] : i \in DOMAIN call.tags}

\* C22: after _apply_metadata on a record, every topic: tag attached before is
\* still attached, every other tag attached before that the merged list does
\* not name is detached, every non-blank tag of the merged list is attached (a
\* tag being named as the tag store resolves names: blanks collapsed, case
\* ignored), and the tags of the other record and the names of the existing
\* tag rows are unchanged.
C22_Apply ==
    (ret # NoRet /\ call.op = "_apply_metadata") =>
        LET before == C22_Attached(call.store, call.book_id)
            after == C22_Attached(ret.value, call.book_id)
        IN /\ \A n \in before : IsTopicTag(n) => n \in after
           /\ \A n \in before :
                  (~IsTopicTag(n) /\ \A m \in C22_Merged : ~C22_SameTag(m, n)) => n \notin after
           /\ \A m \in C22_Merged :
                  tag_clean(m) # <<>> => \E n \in after : C22_SameTag(m, n)
           /\ C22_Attached(ret.value, OtherBook) = C22_Attached(call.store, OtherBook)
           /\ \A i \in DOMAIN call.store.tags : ret.value.tags[i] = call.store.tags[i]

\* The record had the topic tag, "a" and "b"; the merged list names "B" and a
\* new tag with surrounding blanks: the topic tag stays, "a" goes, "c" is new.
C22_Witness ==
    /\ ret # NoRet /\ call.op = "_apply_metadata"
    /\ C22_Attached(call.store, 1) = {TopicA, <<"a">>, <<"b">>}
    /\ call.tags = <<<<"B">>, <<" ", "c", " ">>>>
    /\ TopicA \in C22_Attached(ret.value, 1)
    /\ <<"a">> \notin C22_Attached(ret.value, 1)
    /\ <<"c">> \in C22_Attached(ret.value, 1)

\* the provider call that runs a recognized step
C24_CallOf(step) ==
    CASE step = "description_clean" -> "clean_description"
      [] step = "tag_inference" -> "tag_inference_split"
      [] step = "tag_inference_Romance" -> "tag_inference_field Romance"

C24_Recognized == {"description_clean", "tag_inference", "tag_inference_Romance"}

C24_Expected(items) ==
    LET kept == SelectSeq(items, LAMBDA x : strip(x) \in C24_Recognized)
    IN [i \in DOMAIN kept |-> C24_CallOf(strip(kept[i]))]

\* C24: for a configured list with at least one recognized entry and a
\* provider that answers every call, the steps _process_book runs for a record
\* with a candidate are the recognized entries of the list (description_clean,
\* tag_inference, tag_inference_<field>), each once and in the configured
\* order; the other entries change nothing.
C24_ExactSteps ==
    (ret # NoRet /\ call.op = "_process_book" /\ call.results # <<>>
        /\ call.configured.kind = "list" /\ C24_Expected(call.configured.items) # <<>>
        /\ call.prov.clean # "raise" /\ call.prov.split # "raise"
        /\ call.prov.field # "raise") =>
        ret.value.calls = C24_Expected(call.configured.items)

C25_CleanRuns ==
    /\ ret # NoRet /\ call.op = "_process_book" /\ call.results # <<>>
    /\ \E i \in DOMAIN get_inference_order(call.configured) :
           get_inference_order(call.configured)[i] = "description_clean"

C25_OthersAnswer == call.prov.split # "raise" /\ call.prov.field # "raise"

C25_Raw == _prepare_metadata(_select_best_result(call.results)).description

\* C25: when the description_clean step runs for a record and the provider
\* raises in it, _process_book returns failure with the cleanup error and
\* _apply_metadata is not run; when the provider returns a non-empty text the
\* description handed to _apply_metadata is that text, and when it returns
\* nothing the description of the candidate is kept.
C25_CleanStep ==
    C25_CleanRuns =>
        /\ call.prov.clean = "raise" =>
               /\ ~ret.value.ok /\ ~ret.value.applied
               /\ ret.value.error_message = "AI cleanup failed"
        /\ (call.prov.clean = "text" /\ C25_OthersAnswer) =>
               /\ ret.value.ok /\ ret.value.applied
               /\ ret.value.description = CleanedText
        /\ (call.prov.clean = "empty" /\ C25_OthersAnswer) =>
               /\ ret.value.ok /\ ret.value.applied
               /\ ret.value.description = C25_Raw

C25_Witness ==
    /\ C25_CleanRuns /\ call.prov.clean = "raise" /\ C25_OthersAnswer
    /\ ~ret.value.ok /\ ret.value.calls = <<"clean_description">>

\* The tags the items from position i on give, where keys tells which keys
\* count: one <<field, value>> for the scalar or for each item of
\* the list that is not blank, fields and values without surrounding blanks.
C26_ItemTags(key, value) ==
    LET texts == SelectSeq(value.items, LAMBDA x : x \notin {"", " "})
    IN [n \in DOMAIN texts |-> <<value_strip(key), value_strip(texts[n])>>]

C26_Blank(key) == key \in {"", " "}
C26_Reasoning(key) == key \in {"reasoning", "Reasoning", " Reasoning "}
C26_Keep(keys, key) ==
    CASE keys = "all" -> TRUE
      [] keys = "named" -> ~C26_Blank(key)
      [] keys = "parsed" -> ~C26_Blank(key) /\ ~C26_Reasoning(key)

RECURSIVE C26_Flatten(_, _, _)
C26_Flatten(mapping, i, keys) ==
    IF i > Len(mapping) THEN <<>>
    ELSE (IF C26_Keep(keys, mapping[i][1])
          THEN C26_ItemTags(mapping[i][1], mapping[i][2]) ELSE <<>>)
             \o C26_Flatten(mapping, i + 1, keys)

\* C26 as stated: _build_tags_from_mapping gives one field:value tag for every
\* non-blank scalar value and for every non-blank item of a list value, in
\* mapping order, whatever the key; _parse_tag_mapping gives the same without
\* the keys equal to "reasoning" in any case and without the blank keys.
C26_Flattening ==
    /\ (ret # NoRet /\ call.op = "_build_tags_from_mapping") =>
           ret.value = C26_Flatten(call.tag_mapping, 1, "all")
    /\ (ret # NoRet /\ call.op = "_parse_tag_mapping") =>
           ret.value = C26_Flatten(call.parsed, 1, "parsed")

\* C26, amended: both functions skip the blank keys; _parse_tag_mapping
\* additionally skips the keys equal to "reasoning" in any case.
C26_FlatteningNamed ==
    /\ (ret # NoRet /\ call.op = "_build_tags_from_mapping") =>
           ret.value = C26_Flatten(call.tag_mapping, 1, "named")
    /\ (ret # NoRet /\ call.op = "_parse_tag_mapping") =>
           ret.value = C26_Flatten(call.parsed, 1, "parsed")

C26_Witness ==
    /\ ret # NoRet /\ call.op = "_parse_tag_mapping"
    /\ call.parsed = << <<" Reasoning ", Scalar("x")>>, <<"Mode", ListOf(<<"x", " y ">>)>> >>
    /\ ret.value = << <<"Mode", "x">>, <<"Mode", "y">> >>

\* C27: in every state a job whose stored status is completed, failed or
\* cancelled has current_book_id null, and a job with a current_book_id is
\* running.
C27_CurrentBook ==
    \A j \in DOMAIN jobs :
        LET job == fetch_metadata_job(jobs, j) IN
        /\ job.status \in {"completed", "failed", "cancelled"} => job.current_book_id = NULL
        /\ job.current_book_id # NULL => job.status = "running"

\* C27, amended: a completed or failed job has current_book_id null, and so
\* has a cancelled job once the worker is done with it; a job with a
\* current_book_id is the one the worker is processing, the id is that of a
\* record the worker has started, and the job is running or was cancelled
\* since.
C27_CurrentBookSettled ==
    \A j \in DOMAIN jobs :
        LET job == fetch_metadata_job(jobs, j) IN
        /\ job.status \in {"completed", "failed"} => job.current_book_id = NULL
        /\ (job.status = "cancelled" /\ ~Pending(j)) => job.current_book_id = NULL
        /\ job.current_book_id # NULL =>
               /\ w.job_id = j
               /\ \E i \in DOMAIN w.rows : i <= w.idx /\ job.current_book_id = w.rows[i]
               /\ job.status \in {"running", "cancelled"}

C27_Witness ==
    \E j \in DOMAIN jobs :
        /\ jobs[j].status = "cancelled" /\ jobs[j].current_book_id # NULL
        /\ w.job_id = j /\ w.pc = "pipeline"

\* The job's cancel request was committed while the job was queued: it has a
\* cancelled_at, and no started_at from before it.
C28_CancelledQueued(j) ==
    /\ jobs[j].cancelled_at # NULL
    /\ jobs[j].started_at = NULL \/ jobs[j].cancelled_at < jobs[j].started_at

\* C28: a job cancelled while queued never runs: it is not running, started_at
\* stays null, it has no event and no current record, its counters are 0 and
\* no catalogue record was written for it.
C28_NeverRuns ==
    \A j \in DOMAIN jobs :
        C28_CancelledQueued(j) =>
            /\ jobs[j].status # "running" /\ jobs[j].started_at = NULL
            /\ jobs[j].current_book_id = NULL
            /\ jobs[j].processed_books = 0 /\ jobs[j].succeeded_books = 0
            /\ jobs[j].failed_books = 0
            /\ \A e \in events : e.job_id # j
            /\ \A b \in DOMAIN catalog : \A i \in DOMAIN catalog[b] : catalog[b][i] # j

\* C29: a completed job has processed every record listed at its start
\* (processed_books = total_books), has finished_at set and was never
\* cancelled (cancelled_at is null).
C29_Completed ==
    \A j \in DOMAIN jobs :
        jobs[j].status = "completed" =>
            /\ jobs[j].processed_books = jobs[j].total_books
            /\ jobs[j].finished_at # NULL
            /\ jobs[j].cancelled_at = NULL

\* A cancel request's UPDATE commits for job j.
C30_CancelCommits(k, j) ==
    /\ kreq[k].pc = "write" /\ kreq'[k].pc = "respond" /\ kreq[k].job_id = j
    /\ j \in DOMAIN jobs

\* C30: the step in which a cancel request commits changes, in the job's row,
\* status (to cancelled) and cancelled_at only, and leaves every other job,
\* the events, the catalogue and the worker's position in its record as they
\* are.
C30_CancelFrame ==
    [][\A k \in DOMAIN kreq : \A j \in DOMAIN jobs :
          C30_CancelCommits(k, j) =>
              /\ jobs'[j].status = "cancelled" /\ jobs'[j].cancelled_at = clock
              /\ \A c \in DOMAIN jobs[j] \ {"status", "cancelled_at"} :
                     jobs'[j][c] = jobs[j][c]
              /\ \A i \in DOMAIN jobs \ {j} : jobs'[i] = jobs[i]
              /\ DOMAIN jobs' = DOMAIN jobs
              /\ events' = events /\ catalog' = catalog /\ books' = books
              /\ w' = w /\ queue' = queue]_vars

C30_Witness ==
    \E k \in DOMAIN kreq :
        /\ kreq[k].pc = "respond" /\ kreq[k].job_id \in DOMAIN jobs
        /\ jobs[kreq[k].job_id].status = "cancelled"
        /\ jobs[kreq[k].job_id].current_book_id # NULL
        /\ jobs[kreq[k].job_id].finished_at = NULL
        /\ w.job_id = kreq[k].job_id /\ w.pc = "pipeline"

\* What a poller reads of job j: the row's counters and the job's events.
C31_EventsOf(es, j) == {e \in es : e.job_id = j}
C31_HighestId(es, j) == MaxEventId(C31_EventsOf(es, j))
C31_Latest(es, j) == CHOOSE e \in C31_EventsOf(es, j) : e.id = C31_HighestId(es, j)

C31_Advances ==
    \A j \in DOMAIN jobs :
        /\ jobs'[j].processed_books >= jobs[j].processed_books
        /\ jobs'[j].succeeded_books >= jobs[j].succeeded_books
        /\ jobs'[j].failed_books >= jobs[j].failed_books
        /\ C31_HighestId(events', j) >= C31_HighestId(events, j)

C31_Agrees ==
    \A j \in DOMAIN jobs :
        C31_EventsOf(events, j) # {} =>
            /\ jobs[j].processed_books = C31_Latest(events, j).payload.processed
            /\ jobs[j].succeeded_books = C31_Latest(events, j).payload.succeeded
            /\ jobs[j].failed_books = C31_Latest(events, j).payload.failed

\* C31: from one read of a job and its events to the next the row's counters
\* and the highest event id never decrease, and in every read the row's
\* counters are those in the payload of the job's latest event.
C31_ConsistentView == [][C31_Advances]_vars /\ []C31_Agrees

\* Every entry the categories and the tag candidates give, repetitions
\* included: "topic:" and the trimmed segment for each non-empty segment of
\* each category in order, then each non-blank tag candidate, trimmed.
RECURSIVE C32_Segments(_)
C32_Segments(categories) ==
    IF categories = <<>> THEN <<>>
    ELSE topic_parts(Head(categories)) \o C32_Segments(Tail(categories))

C32_All ==
    LET segs == C32_Segments(call.categories)
    IN [i \in DOMAIN segs |-> TopicOf(segs[i])] \o candidate_texts(call.tag_candidates)

\* The positions of C32_All whose entry equals no earlier one ignoring case.
C32_Firsts ==
    {i \in DOMAIN C32_All : \A k \in 1..(i - 1) : nocase(C32_All[k]) # nocase(C32_All[i])}

\* C32: the tag list _prepare_metadata returns holds no two entries that are
\* equal ignoring case, and it is the entries of the categories and of the tag
\* candidates in first-seen order, each in the spelling seen first.
C32_Prepare ==
    (ret # NoRet /\ call.op = "_prepare_metadata") =>
        /\ \A i, k \in DOMAIN ret.value :
               i # k => nocase(ret.value[i]) # nocase(ret.value[k])
        /\ Len(ret.value) = Cardinality(C32_Firsts)
        /\ \A i \in C32_Firsts :
               ret.value[Cardinality({k \in C32_Firsts : k <= i})] = C32_All[i]

C32_Witness ==
    /\ ret # NoRet /\ call.op = "_prepare_metadata"
    /\ call.categories = << <<"B", ">", "a">>, <<" ", "b", " ", "/", "a">> >>
    /\ call.tag_candidates = << <<"t", "o", "p", "i", "c", ":", "B">>, <<"c">> >>
    /\ ret.value = <<TopicOf(<<"B">>), TopicOf(<<"a">>), <<"c">>>>

\* The prepared tags followed by the inferred tags, and the positions whose
\* tag equals no earlier one ignoring case.
C33_All == call.base_tags \o call.ai_tags
C33_Firsts ==
    {i \in DOMAIN C33_All : \A k \in 1..(i - 1) : nocase(C33_All[k]) # nocase(C33_All[i])}

\* C33: the tags attached to a record without tags, in a store without tag
\* rows, are the prepared tags and the inferred tags without the ones equal
\* ignoring case to an earlier one: the spelling of the first occurrence is
\* the one kept.
C33_FirstWins ==
    (ret # NoRet /\ call.op = "_process_book_apply" /\ call.store.tags = <<>>) =>
        C22_Attached(ret.value, call.book_id) = {C33_All[i] : i \in C33_Firsts}

C34_Count(j, event_type) ==
    Cardinality({e \in C31_EventsOf(events, j) : e.event_type = event_type})

\* C34: a job has one event per processed record: processed_books events, or
\* one more between the write of a record's event and the write of its
\* counters; every event is book_completed or book_failed; a completed job has
\* succeeded_books book_completed events and failed_books book_failed events.
C34_OneEventPerRecord ==
    \A j \in DOMAIN jobs :
        /\ \/ Cardinality(C31_EventsOf(events, j)) = jobs[j].processed_books
           \/ /\ Cardinality(C31_EventsOf(events, j)) = jobs[j].processed_books + 1
              /\ w.job_id = j /\ w.pc = "counters"
        /\ \A e \in C31_EventsOf(events, j) :
               e.event_type \in {"book_completed", "book_failed"}
        /\ jobs[j].status = "completed" =>
               /\ C34_Count(j, "book_completed") = jobs[j].succeeded_books
               /\ C34_Count(j, "book_failed") = jobs[j].failed_books

\* C35: the events of a job, in the order of their ids, carry strictly
\* increasing book ids (records are processed one after the other in ascending
\* book id order, none twice), and the payload's processed is the event's
\* position, counted from 1.
C35_Sequential ==
    \A j \in DOMAIN jobs :
        LET evs == fetch_metadata_job_events(events, j, 0) IN
        \A i \in DOMAIN evs :
            /\ evs[i].payload.processed = i
            /\ i > 1 => evs[i].payload.book_id > evs[i - 1].payload.book_id

C35_Witness ==
    \E j \in DOMAIN jobs :
        LET evs == fetch_metadata_job_events(events, j, 0) IN
        /\ Len(evs) = 2 /\ evs[1].payload.book_id = 1 /\ evs[2].payload.book_id = 2
        /\ evs[1].event_type = "book_failed" /\ evs[2].payload.processed = 2
        /\ jobs[j].status = "completed"

\* The creation request c ends with a failed enqueue in this step.
C36_EnqueueFails(c) == creq[c].pc = "enqueue" /\ creq'[c].result = "error"

\* A creation request passes or fails its check for an active job in this step.
C36_Checks(c) == creq[c].pc = "start" /\ creq'[c].pc # "start"

C36_FailedStep ==
    \A c \in DOMAIN creq :
        C36_EnqueueFails(c) =>
            /\ jobs[creq[c].job_id].status = "queued"
            /\ jobs'[creq[c].job_id].status = "failed"
            /\ jobs'[creq[c].job_id].finished_at # NULL
            /\ jobs'[creq[c].job_id].last_error # NoError

C36_NotActive ==
    \A c \in DOMAIN creq : creq[c].result = "error" => creq[c].job_id \notin ActiveJobIds(jobs)

C36_NextAccepted ==
    \A c, d \in DOMAIN creq :
        (/\ C36_Checks(d) /\ creq[c].result = "error"
         /\ ActiveJobIds(jobs) \ {creq[c].job_id} = {}) => creq'[d].pc = "insert"

\* C36: when the enqueue of a new job fails, the job's row goes from queued to
\* failed with finished_at and last_error set; the job is never active
\* afterwards, and a following creation request is accepted.
C36_EnqueueFailure ==
    /\ [][C36_FailedStep /\ C36_NextAccepted]_vars
    /\ []C36_NotActive

C36_Witness ==
    \E c, d \in DOMAIN creq :
        /\ creq[c].result = "error" /\ jobs[creq[c].job_id].status = "failed"
        /\ creq[d].result = "queued" /\ creq[d].job_id > creq[c].job_id

\* run_metadata_job is under way / returns in this step for a job that exists.
C37_Running == w.pc # "idle"
C37_Returns == w.pc # "idle" /\ w'.pc = "idle" /\ JobExists(jobs, w.job_id)

\* C37: a call of run_metadata_job returns; when it returns for a job that
\* exists, the job's stored status is completed, failed or cancelled; and the
\* loop never goes past the records listed at its start.
C37_Terminates ==
    /\ C37_Running ~> (w.pc = "idle")
    /\ [][C37_Returns => jobs'[w.job_id].status \in TerminalStatuses]_vars
    /\ [](w.idx <= Len(w.rows) + 1)

C37_Witness ==
    /\ w.pc = "idle" /\ queue = <<>>
    /\ \E j \in DOMAIN jobs :
           /\ jobs[j].status = "completed" /\ jobs[j].started_at # NULL
           /\ jobs[j].processed_books = 2 /\ jobs[j].failed_books = 1

\* The job's book_failed events, and the latest of them.
C38_Failures(j) == {e \in C31_EventsOf(events, j) : e.event_type = "book_failed"}
C38_LatestFailure(j) ==
    CHOOSE e \in C38_Failures(j) : \A f \in C38_Failures(j) : f.id <= e.id

\* The worker is inside a record of job j: between the record's first write
\* and the write of its counters.
C38_InRecord(j) ==
    w.job_id = j /\ w.pc \in {"pipeline", "rec_fail", "rec_fail_evt", "rec_ok", "exc",
                              "exc_evt", "counters", "fatal"}

\* The errors written for the job as a whole: by the enqueue-failure path and
\* by the outer handler of run_metadata_job.
C38_JobLevel == {"enqueue failed", "store fault"}

C38_RecordRule(j) ==
    IF C38_Failures(j) = {} THEN jobs[j].last_error = NoError
    ELSE jobs[j].last_error = C38_LatestFailure(j).payload.error

\* The job had finished when a cancel request was committed on it.
C38_CancelledAfterEnd(j) ==
    /\ jobs[j].status = "cancelled" /\ jobs[j].finished_at # NULL
    /\ jobs[j].finished_at < jobs[j].cancelled_at

\* C38: between records and after them, last_error is the error of the job's
\* latest book_failed event, and null when no record has failed (a success
\* changes nothing); when the job failed it is the job-level error.
C38_LastError ==
    \A j \in DOMAIN jobs :
        ~C38_InRecord(j) =>
            IF jobs[j].status = "failed" THEN jobs[j].last_error \in C38_JobLevel
            ELSE IF C38_CancelledAfterEnd(j)
            THEN C38_RecordRule(j) \/ jobs[j].last_error \in C38_JobLevel
            ELSE C38_RecordRule(j)

\* A record failed, the next one succeeded, and the job completed.
C38_Witness ==
    \E j \in DOMAIN jobs :
        /\ jobs[j].status = "completed" /\ jobs[j].succeeded_books = 1
        /\ jobs[j].failed_books = 1 /\ jobs[j].last_error = "No metadata results."
        /\ C38_LatestFailure(j).payload.book_id = 1

\* The configured order gives get_inference_order nothing to keep: it is
\* missing, not a list, empty, or holds no entry equal to description_clean or
\* tag_inference once stripped.
C39_NothingAccepted ==
    \/ call.configured.kind # "list"
    \/ \A i \in DOMAIN call.configured.items :
           strip(call.configured.items[i]) \notin {"description_clean", "tag_inference"}

====
